---- MODULE Spec2Model ----
(***************************************************************************)
(* Redemption codes, leases and the credential pool of the OOR server.     *)
(*                                                                         *)
(* The store is the Firebase realtime database: promo_codes/<code>,        *)
(* transactions/<code>, the top-level cred* nodes and settings/slots.      *)
(* Every `await db.ref(..).get()/update()/set()` of a request handler is   *)
(* one atomic step; the synchronous code that follows an await runs in the *)
(* same step.  Request handlers of different requests interleave at their  *)
(* awaits.                                                                 *)
(*                                                                         *)
(* Times are milliseconds since the epoch of the model; an ISO string and  *)
(* the Date parsed from it are the same number.  OOR1 is a single-use code *)
(* without expiry, OOR2 a multi-use code that expires at time 0, OOR0 a    *)
(* code nobody created.  cred1 serves slot s1 once; cred2 serves the       *)
(* platform without a cap and has no email or password.                    *)
(***************************************************************************)
EXTENDS Integers, Sequences, FiniteSets, TLC

\* ---------------------------------------------------------------- bounds
NumProcs == 2          \* concurrent POST /promo/claim requests
MaxTime  == 1          \* the clock runs over 0..MaxTime seconds
MaxUses  == 2          \* max_uses of the multi-use code
MaxWriteFails == 1     \* store writes that fail, over a whole run

\* ------------------------------------------------------- program constants
maxRetries == 4        \* claimPromoCodeAtomic(code, userId, maxRetries = 4)
DefaultDurationHours == 6
DayDurationHours == 24
HourMs == 3600000      \* 60 * 60 * 1000
SecondMs == 1000
DayMs == 86400000
WindowSeconds == 90    \* window_until: nowTs + 90
MaxPollAttempts == 3   \* while (attempts < 3 && !codeVal)
TotpStep == 30         \* generateTotp(secret, 30, 6)
NoDate == -1         \* a date field that is null or absent

Null == "null"

Procs == 1..NumProcs

\* ------------------------------------------------------------- the store
VARIABLES
  now,            \* the wall clock, Date.now()
  promo_codes,    \* promo_codes/<code>: record or NoPromo
  transactions,   \* transactions/<code>: record or NoTxn
  creds,          \* top-level cred* nodes
  \* ---- one POST /promo/claim request per process
  pc,             \* position of the handler
  code,           \* codeText of the request
  attempt,        \* loop counter of claimPromoCodeAtomic
  patchPayload,   \* patchPayload built after the read
  claimResult,    \* what claimPromoCodeAtomic returned
  sel,            \* { key, node } returned by selectCredentialForSlot
  outcome,        \* the HTTP response
  writeFails,     \* store writes that have failed so far
  \* ---- the rest of the store
  poolOrder,      \* the order in which Object.entries(root) yields the creds
  code_windows,   \* runtime/code_windows/<platform>.window_until
  \* ---- one lease request (/user/login, /account/*) per process
  op,             \* the endpoint of the request
  answered,       \* history: the requests already answered when it arrived
  trx,            \* the lease record the handler read
  cred,           \* the cred node the handler read
  nowTs,          \* nowTs of /account/get-code
  attempts,       \* attempts of /account/get-code
  codeVal,        \* codeVal of /account/get-code
  otp,            \* one generateTotp call: its arguments, clock and result
  wakeAt          \* /account/get-code: when the setTimeout of the loop fires

\* the locals of POST /promo/claim
claimLocals == <<attempt, patchPayload, claimResult, sel, writeFails>>

\* the locals of the lease handlers
leaseLocals == <<op, answered, trx, cred, nowTs, attempts, codeVal, otp, wakeAt>>

\* what POST /promo/claim neither reads nor writes, but for the pool order
otherVars == <<poolOrder, code_windows, leaseLocals>>

vars == <<now, promo_codes, transactions, creds, pc, code, attempt,
          patchPayload, claimResult, sel, outcome, writeFails, otherVars>>

storeVars == <<promo_codes, transactions, creds>>

NoPromo == [absent |-> TRUE]
NoTxn   == [absent |-> TRUE]
NoPatch == [absent |-> TRUE]
NoSel   == [key |-> Null, node |-> [absent |-> TRUE]]
NoCred  == [absent |-> TRUE]
NoOtp   == [absent |-> TRUE]

Codes == {"OOR0", "OOR1", "OOR2"}
CredOrder == <<"cred1", "cred2">>          \* Object.entries(root) order
CredKeys == {CredOrder[i] : i \in 1..Len(CredOrder)}

\* a slot of settings/slots with the given duration_hours
Slot(rawDuration) ==
  [name |-> "Premium", platform |-> "Netflix", duration_hours |-> rawDuration]

\* duration_hours as a number, as text (its characters) and missing
Num(n) == [kind |-> "number", n |-> n]
Text(chars) == [kind |-> "string", text |-> chars]
Absent == [kind |-> "absent"]

\* settings/slots
Slots ==
  [s1 |-> Slot(Num(6)),
   s2 |-> Slot(Text(<<"1", " ", "d", "a", "y">>)),
   s3 |-> Slot(Text(<<"2", " ", "D", "a", "y", "s">>)),
   s4 |-> Slot(Text(<<"1", "2", "h">>)),
   s5 |-> Slot(Text(<<"-", "3">>)),
   s6 |-> Slot(Text(<<"s", "o", "o", "n">>)),
   s7 |-> Slot(Text(<<>>)),
   s8 |-> Slot(Absent),
   s9 |-> Slot(Num(0))]

NoSlot == [absent |-> TRUE]

getSlot(slotId) == IF slotId \in DOMAIN Slots THEN Slots[slotId] ELSE NoSlot

\* ------------------------------------------------------------ pure helpers

\* String.prototype.toLowerCase on the strings of the model
toLowerCase(s) ==
  CASE s = "Netflix" -> "netflix"
    [] s = "S1"      -> "s1"
    [] s = "ALL"     -> "all"
    [] OTHER         -> s

\* formatDateTime(d) followed by new Date(text): the milliseconds are dropped
formatDateTime(t) == (t \div SecondMs) * SecondMs

\* a faulty variant: the comparison with the clock is the wrong way round
IsExpired_Flipped(promo, t) ==
  /\ promo.expires_at # NoDate
  /\ promo.expires_at > t

\* promo.expires_at set, a valid date, and before new Date()
IsExpired(promo, t) ==
  /\ promo.expires_at # NoDate
  /\ promo.expires_at < t

\* a faulty variant: the cap is tested with > instead of >=
UsedUp_OffByOne(usedCount, maxUses) == usedCount > maxUses

\* usedCount >= maxUses
UsedUp(usedCount, maxUses) == usedCount >= maxUses

\* a faulty variant: the patch counts the use but keeps the use log as read
BuildPatch_NoLog(promo, userId, t) ==
  [used_count   |-> promo.used_count + 1,
   last_used_by |-> userId,
   last_used_at |-> t,
   used_by      |-> promo.used_by]

\* the patch claimPromoCodeAtomic builds from the record it read
BuildPatch(promo, userId, t) ==
  [used_count   |-> promo.used_count + 1,
   last_used_by |-> userId,
   last_used_at |-> t,
   used_by      |-> Append(promo.used_by, [user_id |-> userId, used_at |-> t])]

\* db.ref(`promo_codes/${code}`).update(patchPayload)
ApplyPatch(promo, patch) ==
  [promo EXCEPT !.used_count   = patch.used_count,
                !.last_used_by = patch.last_used_by,
                !.last_used_at = patch.last_used_at,
                !.used_by      = patch.used_by]

\* ---- parseInt(text, 10) and /day/i.test(text) on the characters of a text
DigitChars == <<"0", "1", "2", "3", "4", "5", "6", "7", "8", "9">>

IsDigit(ch) == \E i \in 1..Len(DigitChars) : DigitChars[i] = ch

DigitValue(ch) == (CHOOSE i \in 1..Len(DigitChars) : DigitChars[i] = ch) - 1

\* the text without its leading white space
RECURSIVE TrimStart(_)
TrimStart(chars) ==
  IF chars # <<>> /\ Head(chars) = " " THEN TrimStart(Tail(chars)) ELSE chars

\* the value of the longest run of digits at the start of the text, given
\* the value acc of the digits already read
RECURSIVE ReadDigits(_, _)
ReadDigits(chars, acc) ==
  IF chars # <<>> /\ IsDigit(Head(chars))
  THEN ReadDigits(Tail(chars), acc * 10 + DigitValue(Head(chars)))
  ELSE acc

NaN == [nan |-> TRUE]

\* parseInt(text, 10): white space, an optional sign, then digits
parseInt(chars) ==
  LET t == TrimStart(chars)
      signed == t # <<>> /\ Head(t) \in {"-", "+"}
      digits == IF signed THEN Tail(t) ELSE t
      sign == IF signed /\ Head(t) = "-" THEN -1 ELSE 1
  IN IF digits = <<>> \/ ~IsDigit(Head(digits))
     THEN NaN
     ELSE [nan |-> FALSE, n |-> sign * ReadDigits(digits, 0)]

\* the letters d, a, y in either case
LowerChar(ch) ==
  CASE ch = "D" -> "d" [] ch = "A" -> "a" [] ch = "Y" -> "y" [] OTHER -> ch

\* /day/i.test(text)
matchesDay(chars) ==
  \E i \in 1..(Len(chars) - 2) :
    /\ LowerChar(chars[i]) = "d"
    /\ LowerChar(chars[i + 1]) = "a"
    /\ LowerChar(chars[i + 2]) = "y"

\* a faulty variant: the text is parsed without the test for "day"
durationHours_NoDay(rawDuration) ==
  CASE rawDuration.kind = "number" -> rawDuration.n
    [] rawDuration.kind = "string" ->
         IF parseInt(rawDuration.text) # NaN THEN parseInt(rawDuration.text).n
         ELSE DefaultDurationHours
    [] OTHER -> DefaultDurationHours

\* durationHours of POST /promo/claim from slot.duration_hours
durationHours(rawDuration) ==
  CASE rawDuration.kind = "number" -> rawDuration.n
    [] rawDuration.kind = "string" ->
         IF matchesDay(rawDuration.text) THEN DayDurationHours
         ELSE IF parseInt(rawDuration.text) # NaN THEN parseInt(rawDuration.text).n
         ELSE DefaultDurationHours
    [] OTHER -> DefaultDurationHours

\* txnRecord of POST /promo/claim (the display fields slot_name, label_mode
\* and headline are left out: no handler reads them back)
txnRecord(slotId, slot, userId, t) ==
  [platform    |-> slot.platform,
   slot_id     |-> slotId,
   start_time  |-> formatDateTime(t),
   end_time    |-> formatDateTime(t + durationHours(slot.duration_hours) * HourMs),
   approved_at |-> t,
   assign_to   |-> Null,
   user_id     |-> userId,
   last_email  |-> Null,
   last_password |-> Null,
   hidden      |-> FALSE]

\* ---- selectCredentialForSlot
ownsSet(val) == {toLowerCase(val[i]) : i \in 1..Len(val)}

appliesSlot(node, slotId) == toLowerCase(slotId) \in ownsSet(node.belongs_to_slot)

appliesPlat(node, slotInfo) ==
  /\ slotInfo.platform # Null
  /\ toLowerCase(slotInfo.platform) \in ownsSet(node.belongs_to_platform)

appliesAll(node) ==
  "all" \in ownsSet(node.belongs_to_slot) \/ "all" \in ownsSet(node.belongs_to_platform)

\* a faulty variant: the usage cap is tested with > instead of >=
UsageCapReached_OffByOne(node) == node.max_usage # 0 /\ node.usage_count > node.max_usage

\* maxUsage !== 0 && usageCount >= maxUsage
UsageCapReached(node) == node.max_usage # 0 /\ node.usage_count >= node.max_usage

\* new Date(y, m - 1, d + 1) < today
CredExpired(node, today) ==
  /\ node.expiry_date # NoDate
  /\ (node.expiry_date + 1) * DayMs < today

IsCandidate(node, slotId, slotInfo, today) ==
  /\ appliesSlot(node, slotId) \/ appliesPlat(node, slotInfo) \/ appliesAll(node)
  /\ node.locked # 1
  /\ ~UsageCapReached(node)
  /\ ~CredExpired(node, today)

\* candidates.find(pred) over the keys that satisfy pred, in pool order
FindFirst(keys) == IF keys = <<>> THEN Null ELSE Head(keys)

\* a faulty variant: the platform tier is searched before the slot tier
selectCredentialForSlot_PlatFirst(root, slotId, slotInfo, today) ==
  LET IsCand(k) == IsCandidate(root[k], slotId, slotInfo, today)
      candidates == SelectSeq(poolOrder, IsCand)
      BySlot(k) == appliesSlot(root[k], slotId)
      ByPlat(k) == appliesPlat(root[k], slotInfo)
      ByAll(k)  == appliesAll(root[k])
      b1 == FindFirst(SelectSeq(candidates, BySlot))
      b2 == FindFirst(SelectSeq(candidates, ByPlat))
      b3 == FindFirst(SelectSeq(candidates, ByAll))
      best == IF b2 # Null THEN b2 ELSE IF b1 # Null THEN b1 ELSE b3
  IN IF best = Null THEN NoSel ELSE [key |-> best, node |-> root[best]]

selectCredentialForSlot(root, slotId, slotInfo, today) ==
  LET IsCand(k) == IsCandidate(root[k], slotId, slotInfo, today)
      candidates == SelectSeq(poolOrder, IsCand)
      BySlot(k) == appliesSlot(root[k], slotId)
      ByPlat(k) == appliesPlat(root[k], slotInfo)
      ByAll(k)  == appliesAll(root[k])
      b1 == FindFirst(SelectSeq(candidates, BySlot))
      b2 == FindFirst(SelectSeq(candidates, ByPlat))
      b3 == FindFirst(SelectSeq(candidates, ByAll))
      best == IF b1 # Null THEN b1 ELSE IF b2 # Null THEN b2 ELSE b3
  IN IF best = Null THEN NoSel ELSE [key |-> best, node |-> root[best]]

\* ------------------------------------------------------------------ Init
UserId(p) == "user" \o ToString(p)

\* runtime/code_windows before any /account/get-code
NoWindows == [k \in {"netflix"} |-> 0]

\* no lease request has started
InitLeaseLocals ==
  /\ op = [p \in Procs |-> Null]
  /\ answered = [p \in Procs |-> {}]
  /\ trx = [p \in Procs |-> NoTxn]
  /\ cred = [p \in Procs |-> NoCred]
  /\ nowTs = [p \in Procs |-> 0]
  /\ attempts = [p \in Procs |-> 0]
  /\ codeVal = [p \in Procs |-> Null]
  /\ otp = [p \in Procs |-> NoOtp]
  /\ wakeAt = [p \in Procs |-> 0]

InitPromo(maxUses, expiresAt) ==
  [slot_id |-> "s1", expires_at |-> expiresAt, used_count |-> 0,
   max_uses |-> maxUses, revoked |-> FALSE,
   last_used_by |-> Null, last_used_at |-> NoDate, used_by |-> <<>>]

InitCreds ==
  [k \in CredKeys |->
     IF k = "cred1"
     THEN [belongs_to_slot |-> <<"S1">>, belongs_to_platform |-> <<>>,
           locked |-> 0, usage_count |-> 0, max_usage |-> 1,
           expiry_date |-> NoDate, email |-> "mail1", password |-> "pass1"]
     ELSE [belongs_to_slot |-> <<>>, belongs_to_platform |-> <<"netflix">>,
           locked |-> 0, usage_count |-> 0, max_usage |-> 0,
           expiry_date |-> NoDate, email |-> Null, password |-> Null]]

Init ==
  /\ now = 0
  /\ promo_codes = [c \in Codes |->
        CASE c = "OOR1" -> InitPromo(1, NoDate)
          [] c = "OOR2" -> InitPromo(MaxUses, 0)
          [] OTHER      -> NoPromo]
  /\ transactions = [c \in Codes |-> NoTxn]
  /\ creds = InitCreds
  /\ pc = [p \in Procs |-> "idle"]
  /\ code = [p \in Procs |-> Null]
  /\ attempt = [p \in Procs |-> 0]
  /\ patchPayload = [p \in Procs |-> NoPatch]
  /\ claimResult = [p \in Procs |-> "NONE"]
  /\ sel = [p \in Procs |-> NoSel]
  /\ outcome = [p \in Procs |-> "NONE"]
  /\ writeFails = 0
  /\ poolOrder = CredOrder
  /\ code_windows = NoWindows
  /\ InitLeaseLocals

\* --------------------------------------------------------------- actions

\* the clock advances by a second
Tick ==
  /\ now < MaxTime * SecondMs
  /\ now' = now + SecondMs
  /\ UNCHANGED <<storeVars, pc, code, attempt, patchPayload, claimResult, sel, outcome, writeFails>>
  /\ UNCHANGED otherVars

\* the administrative collaborator revokes a code
Revoke(c) ==
  /\ promo_codes[c] # NoPromo
  /\ ~promo_codes[c].revoked
  /\ promo_codes' = [promo_codes EXCEPT ![c].revoked = TRUE]
  /\ UNCHANGED <<now, transactions, creds, pc, code, attempt, patchPayload,
                 claimResult, sel, outcome, writeFails>>
  /\ UNCHANGED otherVars

\* a faulty variant: the loop test lets one attempt too many through
NextAttempt_OneMore(p) ==
  /\ patchPayload' = [patchPayload EXCEPT ![p] = NoPatch]
  /\ IF attempt[p] + 1 <= maxRetries
     THEN /\ attempt' = [attempt EXCEPT ![p] = @ + 1]
          /\ pc' = [pc EXCEPT ![p] = "read"]
          /\ UNCHANGED <<claimResult, outcome>>
     ELSE /\ attempt' = [attempt EXCEPT ![p] = 0]
          /\ claimResult' = [claimResult EXCEPT ![p] = "RACE_FAILED"]
          /\ outcome' = [outcome EXCEPT ![p] = "FAILED"]
          /\ pc' = [pc EXCEPT ![p] = "done"]

\* what the loop of claimPromoCodeAtomic does after an attempt that neither
\* succeeded nor returned: attempt++, then the loop test.  The locals of the
\* loop body end with the iteration, those of the function with its return.
NextAttempt(p) ==
  /\ patchPayload' = [patchPayload EXCEPT ![p] = NoPatch]
  /\ IF attempt[p] + 1 < maxRetries
     THEN /\ attempt' = [attempt EXCEPT ![p] = @ + 1]
          /\ pc' = [pc EXCEPT ![p] = "read"]
          /\ UNCHANGED <<claimResult, outcome>>
     ELSE /\ attempt' = [attempt EXCEPT ![p] = 0]
          /\ claimResult' = [claimResult EXCEPT ![p] = "RACE_FAILED"]
          /\ outcome' = [outcome EXCEPT ![p] = "FAILED"]
          /\ pc' = [pc EXCEPT ![p] = "done"]

\* claimPromoCodeAtomic returns [false, reason]; the handler answers 400
ClaimFail(p, reason) ==
  /\ claimResult' = [claimResult EXCEPT ![p] = reason]
  /\ outcome' = [outcome EXCEPT ![p] = "FAILED"]
  /\ pc' = [pc EXCEPT ![p] = "done"]
  /\ attempt' = [attempt EXCEPT ![p] = 0]
  /\ UNCHANGED patchPayload

\* POST /promo/claim with codeText c (first attempt), or the next attempt of
\* the loop: the read of promo_codes/<code>, the checks and the patch.
\* Requests are numbered in the order of their first read (the requests are
\* interchangeable but for the user_id).
ClaimRead(p, c) ==
  /\ \/ pc[p] = "idle" /\ \A q \in Procs : q < p => pc[q] # "idle"
     \/ pc[p] = "read" /\ c = code[p]
  /\ code' = [code EXCEPT ![p] = c]
  /\ LET promo == promo_codes[c] IN
       IF promo = NoPromo THEN ClaimFail(p, "CODE_NOT_FOUND")
       ELSE IF promo.revoked THEN ClaimFail(p, "CODE_REVOKED")
       ELSE IF IsExpired(promo, now) THEN ClaimFail(p, "CODE_EXPIRED")
       ELSE IF UsedUp(promo.used_count, promo.max_uses)
            THEN ClaimFail(p, "CODE_ALREADY_USED_UP")
       ELSE /\ patchPayload' = [patchPayload EXCEPT ![p] = BuildPatch(promo, UserId(p), now)]
            /\ pc' = [pc EXCEPT ![p] = "write"]
            /\ UNCHANGED <<claimResult, outcome, attempt>>
  /\ UNCHANGED <<now, storeVars, sel, writeFails>>
  /\ UNCHANGED otherVars

\* update(patchPayload) succeeds
ClaimWrite(p) ==
  /\ pc[p] = "write"
  /\ promo_codes' = [promo_codes EXCEPT ![code[p]] = ApplyPatch(@, patchPayload[p])]
  /\ pc' = [pc EXCEPT ![p] = "verify"]
  /\ UNCHANGED <<now, transactions, creds, code, attempt, patchPayload,
                 claimResult, sel, outcome, writeFails>>
  /\ UNCHANGED otherVars

\* update(patchPayload) throws: backoff, next attempt
ClaimWriteFail(p) ==
  /\ pc[p] = "write"
  /\ writeFails < MaxWriteFails
  /\ writeFails' = writeFails + 1
  /\ NextAttempt(p)
  /\ UNCHANGED <<now, storeVars, code, sel>>
  /\ UNCHANGED otherVars

\* a faulty variant: the re-read is not compared
Confirmed_Any(after, newUsedCount) == TRUE

\* parseInt(after.used_count ?? 0, 10) === newUsedCount
Confirmed(after, newUsedCount) == after.used_count = newUsedCount

\* the re-read of promo_codes/<code> and the comparison with newUsedCount
ClaimVerify(p) ==
  /\ pc[p] = "verify"
  /\ LET after == promo_codes[code[p]] IN
       IF Confirmed(after, patchPayload[p].used_count)
       THEN /\ claimResult' = [claimResult EXCEPT ![p] = "OK"]
            /\ pc' = [pc EXCEPT ![p] = "lease"]
            /\ attempt' = [attempt EXCEPT ![p] = 0]
            /\ patchPayload' = [patchPayload EXCEPT ![p] = NoPatch]
            /\ UNCHANGED outcome
       ELSE NextAttempt(p)
  /\ UNCHANGED <<now, storeVars, code, sel, writeFails>>
  /\ UNCHANGED otherVars

\* getSlot, the duration, and transactions/<code>.set(txnRecord)
CreateLease(p) ==
  /\ pc[p] = "lease"
  /\ LET slotId == promo_codes[code[p]].slot_id
         slot == getSlot(slotId)
     IN IF slotId = Null \/ slot = NoSlot
        THEN /\ outcome' = [outcome EXCEPT ![p] = "ERROR500"]
             /\ pc' = [pc EXCEPT ![p] = "done"]
             /\ UNCHANGED transactions
        ELSE /\ transactions' = [transactions EXCEPT ![code[p]] =
                                   txnRecord(slotId, slot, UserId(p), now)]
             /\ pc' = [pc EXCEPT ![p] = "select"]
             /\ UNCHANGED outcome
  /\ UNCHANGED <<now, promo_codes, creds, code, attempt, patchPayload, claimResult, sel, writeFails>>
  /\ UNCHANGED otherVars

\* selectCredentialForSlot reads the root; no credential: "claimed, unassigned"
SelectCred(p) ==
  /\ pc[p] = "select"
  /\ LET slotId == promo_codes[code[p]].slot_id
         s == selectCredentialForSlot(creds, slotId, getSlot(slotId), now)
     IN /\ sel' = [sel EXCEPT ![p] = s]
        /\ IF s.key = Null
           THEN /\ outcome' = [outcome EXCEPT ![p] = "UNASSIGNED"]
                /\ pc' = [pc EXCEPT ![p] = "done"]
           ELSE /\ pc' = [pc EXCEPT ![p] = "bind"]
                /\ UNCHANGED outcome
  /\ UNCHANGED <<now, storeVars, code, attempt, patchPayload, claimResult, writeFails>>
  /\ UNCHANGED otherVars

\* transactions/<code>.update({assign_to, last_email, last_password})
BindCred(p) ==
  /\ pc[p] = "bind"
  /\ transactions' = [transactions EXCEPT ![code[p]] =
        [@ EXCEPT !.assign_to = sel[p].key,
                  !.last_email = sel[p].node.email,
                  !.last_password = sel[p].node.password]]
  /\ pc' = [pc EXCEPT ![p] = "incr"]
  /\ UNCHANGED <<now, promo_codes, creds, code, attempt, patchPayload,
                 claimResult, sel, outcome, writeFails>>
  /\ UNCHANGED otherVars

\* a faulty variant: the handler counts a use twice
NextUsage_ByTwo(credData) == credData.usage_count + 2

\* usageCount + 1, usageCount being the count of the node the selector read
NextUsage(credData) == credData.usage_count + 1

\* <credKey>.update({usage_count: usageCount + 1}) from the node that was read
IncrUsage(p) ==
  /\ pc[p] = "incr"
  /\ LET credData == sel[p].node IN
       IF credData.max_usage = 0 \/ credData.usage_count < credData.max_usage
       THEN creds' = [creds EXCEPT ![sel[p].key].usage_count = NextUsage(credData)]
       ELSE UNCHANGED creds
  /\ pc' = [pc EXCEPT ![p] = "final"]
  /\ UNCHANGED <<now, promo_codes, transactions, code, attempt, patchPayload,
                 claimResult, sel, outcome, writeFails>>
  /\ UNCHANGED otherVars

\* the final read of transactions/<code> and the 200 answer
FinalRead(p) ==
  /\ pc[p] = "final"
  /\ outcome' = [outcome EXCEPT ![p] = "ASSIGNED"]
  /\ pc' = [pc EXCEPT ![p] = "done"]
  /\ sel' = [sel EXCEPT ![p] = NoSel]
  /\ UNCHANGED <<now, storeVars, code, attempt, patchPayload, claimResult, writeFails>>
  /\ UNCHANGED otherVars

\* claimPromoCodeAtomic under concurrent callers, the clock and the
\* administrative collaborator; a caller whose claim succeeded stays at "lease"
Next ==
  \/ Tick
  \/ \E c \in Codes : Revoke(c)
  \/ \E p \in Procs, c \in Codes : ClaimRead(p, c)
  \/ \E p \in Procs : ClaimWrite(p)
  \/ \E p \in Procs : ClaimWriteFail(p)
  \/ \E p \in Procs : ClaimVerify(p)

Spec == Init /\ [][Next]_vars

\* the whole POST /promo/claim handler: the claim, the lease, the binding
NextLease ==
  \/ Tick
  \/ \E p \in Procs, c \in Codes : ClaimRead(p, c)
  \/ \E p \in Procs : ClaimWrite(p)
  \/ \E p \in Procs : ClaimVerify(p)
  \/ \E p \in Procs : CreateLease(p)
  \/ \E p \in Procs : SelectCred(p)
  \/ \E p \in Procs : BindCred(p)
  \/ \E p \in Procs : IncrUsage(p)
  \/ \E p \in Procs : FinalRead(p)

SpecLease == Init /\ [][NextLease]_vars


\* ------------------------------------------------- successive claims
\* the client of a request that has returned posts the code of that request
\* to POST /promo/claim: a new call of claimPromoCodeAtomic, with fresh locals
ClaimAgain(p) ==
  /\ pc[p] \in {"lease", "done"}
  /\ pc' = [pc EXCEPT ![p] = "read"]
  /\ attempt' = [attempt EXCEPT ![p] = 0]
  /\ patchPayload' = [patchPayload EXCEPT ![p] = NoPatch]
  /\ claimResult' = [claimResult EXCEPT ![p] = "NONE"]
  /\ outcome' = [outcome EXCEPT ![p] = "NONE"]
  /\ UNCHANGED <<now, storeVars, code, sel, writeFails>>
  /\ UNCHANGED otherVars

\* claimPromoCodeAtomic under callers that call again: at most NumProcs calls
\* are in flight at a time, any number over a run
NextSeries ==
  \/ \E p \in Procs, c \in Codes : ClaimRead(p, c)
  \/ \E p \in Procs : ClaimWrite(p)
  \/ \E p \in Procs : ClaimVerify(p)
  \/ \E p \in Procs : ClaimAgain(p)

SpecSeries == Init /\ [][NextSeries]_vars


\* ------------------------------------------------- code creation
\* codeExistsAnywhere(code): a code record or a lease under that code
codeExistsAnywhere(c) == promo_codes[c] # NoPromo \/ transactions[c] # NoTxn

\* the max_uses an administrator asks for
GenMaxUses == {1, MaxUses}

\* POST /admin/gen-code with customCode c: the existence check
GenCheck(p, c) ==
  /\ pc[p] = "idle"
  /\ \A q \in Procs : q < p => pc[q] # "idle"
  /\ code' = [code EXCEPT ![p] = c]
  /\ IF codeExistsAnywhere(c)
     THEN /\ outcome' = [outcome EXCEPT ![p] = "EXISTS"]
          /\ pc' = [pc EXCEPT ![p] = "done"]
     ELSE /\ pc' = [pc EXCEPT ![p] = "gen_set"]
          /\ UNCHANGED outcome
  /\ UNCHANGED <<now, storeVars, attempt, patchPayload, claimResult, sel, writeFails>>
  /\ UNCHANGED otherVars

\* POST /admin/gen-code: promoRef.set(promoPayload) and the 200 answer
GenSet(p, m) ==
  /\ pc[p] = "gen_set"
  /\ promo_codes' = [promo_codes EXCEPT ![code[p]] = InitPromo(m, NoDate)]
  /\ outcome' = [outcome EXCEPT ![p] = "CREATED"]
  /\ pc' = [pc EXCEPT ![p] = "done"]
  /\ UNCHANGED <<now, transactions, creds, code, attempt, patchPayload,
                 claimResult, sel, writeFails>>
  /\ UNCHANGED otherVars

\* concurrent code creation and claims; the client of a request that has
\* returned may go on to claim the code of that request
NextGen ==
  \/ \E p \in Procs, c \in Codes : GenCheck(p, c)
  \/ \E p \in Procs, m \in GenMaxUses : GenSet(p, m)
  \/ \E p \in Procs, c \in Codes : ClaimRead(p, c)
  \/ \E p \in Procs : ClaimWrite(p)
  \/ \E p \in Procs : ClaimVerify(p)
  \/ \E p \in Procs : ClaimAgain(p)

SpecGen == Init /\ [][NextGen]_vars


\* ------------------------------------------------- the lease handlers
\* a faulty variant: set(patch), which replaces the node
Update_Replace(node, patch) == patch

\* db.ref(path).update(patch): the fields of the patch replace or extend
\* those of the node
Update(node, patch) == patch @@ node

\* x || ""
OrEmpty(x) == IF x = Null THEN "" ELSE x

\* a faulty variant: a lease is expired from its end timestamp on
LeaseExpired_AtEnd(t, nowMs) ==
  /\ t.end_time # NoDate
  /\ t.end_time <= nowMs

\* endTime && endTime.getTime() < Date.now(), endTime = parseEndTime(trx.end_time)
LeaseExpired(t, nowMs) ==
  /\ t.end_time # NoDate
  /\ t.end_time < nowMs

\* a faulty variant: the refresh stores the email only
RefreshPatch_EmailOnly(c) ==
  [last_email |-> OrEmpty(c.email)]

\* { last_email: newEmail, last_password: newPassword }
RefreshPatch(c) ==
  [last_email |-> OrEmpty(c.email), last_password |-> OrEmpty(c.password)]

\* the end of a lease of slot s1 created at time 0
LeaseEnd == formatDateTime(durationHours(Slots["s1"].duration_hours) * HourMs)

\* the instants the clock of the lease handlers visits: half-second steps
\* around the end of the lease
OpsInstants == {LeaseEnd + k * (SecondMs \div 2) : k \in (-1)..(MaxTime + 1)}

\* the lease POST /promo/claim stored at time 0 for a user who was assigned cred1
BoundLease(userId) ==
  [txnRecord("s1", Slots["s1"], userId, 0) EXCEPT
     !.assign_to = "cred1",
     !.last_email = InitCreds["cred1"].email,
     !.last_password = InitCreds["cred1"].password]

\* the cred nodes with their OTP secrets
InitCredsOps ==
  [k \in CredKeys |->
     InitCreds[k] @@ [secret |-> IF k = "cred1" THEN "JBSWY3DPEHPK3PXP" ELSE Null]]

\* OOR1 has a lease bound to cred1; OOR2 has a lease without a credential,
\* which the administrator may have hidden
InitOps ==
  /\ now = 0
  /\ promo_codes = [c \in Codes |->
        CASE c = "OOR1" -> [InitPromo(1, NoDate) EXCEPT !.used_count = 1]
          [] c = "OOR2" -> [InitPromo(MaxUses, NoDate) EXCEPT !.used_count = 1]
          [] OTHER      -> NoPromo]
  /\ \E h \in BOOLEAN :
       transactions = [c \in Codes |->
          CASE c = "OOR1" -> BoundLease("user1")
            [] c = "OOR2" -> [txnRecord("s1", Slots["s1"], "user2", 0) EXCEPT !.hidden = h]
            [] OTHER      -> NoTxn]
  /\ creds = InitCredsOps
  /\ pc = [p \in Procs |-> "idle"]
  /\ code = [p \in Procs |-> Null]
  /\ attempt = [p \in Procs |-> 0]
  /\ patchPayload = [p \in Procs |-> NoPatch]
  /\ claimResult = [p \in Procs |-> "NONE"]
  /\ sel = [p \in Procs |-> NoSel]
  /\ outcome = [p \in Procs |-> "NONE"]
  /\ writeFails = 0
  /\ poolOrder = CredOrder
  /\ code_windows = NoWindows
  /\ InitLeaseLocals

\* the clock moves on to a later instant
TickOps ==
  /\ \E t \in OpsInstants : t > now /\ now' = t
  /\ UNCHANGED <<storeVars, pc, code, outcome, claimLocals, otherVars>>

\* the administrative collaborator changes the login of a cred node
EditCred(k) ==
  /\ creds[k].email = InitCredsOps[k].email
  /\ creds[k].email # Null
  /\ creds' = [creds EXCEPT ![k].email = "mail2", ![k].password = "pass2"]
  /\ UNCHANGED <<now, promo_codes, transactions, pc, code, outcome, claimLocals, otherVars>>

\* a request arrives: requests are numbered in the order of their arrival
Arrives(p, c, o) ==
  /\ pc[p] = "idle"
  /\ \A q \in Procs : q < p => pc[q] # "idle"
  /\ code' = [code EXCEPT ![p] = c]
  /\ op' = [op EXCEPT ![p] = o]
  /\ answered' = [answered EXCEPT ![p] = {q \in Procs : pc[q] = "done"}]

\* res.status(..).json(..) and return
Answer(p, r) ==
  /\ outcome' = [outcome EXCEPT ![p] = r]
  /\ pc' = [pc EXCEPT ![p] = "done"]

\* POST /user/login: the read of transactions/<code> and the checks; the
\* reads that follow (slot, platform_actions, invite link) decide nothing
ViewLease(p, c) ==
  /\ Arrives(p, c, "login")
  /\ LET t == transactions[c] IN
       IF t = NoTxn THEN Answer(p, "NOT_FOUND")
       ELSE IF t.hidden = TRUE THEN Answer(p, "HIDDEN")
       ELSE IF LeaseExpired(t, now) THEN Answer(p, "EXPIRED")
       ELSE Answer(p, "OK")
  /\ UNCHANGED <<now, storeVars, claimLocals, poolOrder, code_windows,
                 trx, cred, nowTs, attempts, codeVal, otp, wakeAt>>

\* POST /account/refresh, /account/get-otp, /account/get-code: the read of
\* transactions/<code>, the expiry check and credKey
LeaseOpRead(p, c, o) ==
  /\ Arrives(p, c, o)
  /\ LET t == transactions[c] IN
       IF t = NoTxn THEN Answer(p, "NOT_FOUND") /\ UNCHANGED trx
       ELSE IF LeaseExpired(t, now) THEN Answer(p, "EXPIRED") /\ UNCHANGED trx
       ELSE IF t.assign_to = Null THEN Answer(p, "NO_CRED") /\ UNCHANGED trx
       ELSE /\ trx' = [trx EXCEPT ![p] = t]
            /\ pc' = [pc EXCEPT ![p] = o \o "_cred"]
            /\ UNCHANGED outcome
  /\ UNCHANGED <<now, storeVars, claimLocals, poolOrder, code_windows,
                 cred, nowTs, attempts, codeVal, otp, wakeAt>>

\* /account/refresh: the read of the cred node and the comparison
RefreshCred(p) ==
  /\ pc[p] = "refresh_cred"
  /\ LET credKey == trx[p].assign_to IN
       IF credKey \notin DOMAIN creds
       THEN Answer(p, "CRED_NOT_FOUND") /\ UNCHANGED cred
       ELSE /\ cred' = [cred EXCEPT ![p] = creds[credKey]]
            /\ IF /\ OrEmpty(creds[credKey].email) = OrEmpty(trx[p].last_email)
                  /\ OrEmpty(creds[credKey].password) = OrEmpty(trx[p].last_password)
               THEN Answer(p, "UNCHANGED")
               ELSE pc' = [pc EXCEPT ![p] = "refresh_write"] /\ UNCHANGED outcome
  /\ UNCHANGED <<now, storeVars, code, claimLocals, poolOrder, code_windows,
                 op, answered, trx, nowTs, attempts, codeVal, otp, wakeAt>>

\* /account/refresh: transactions/<code>.update({last_email, last_password})
RefreshWrite(p) ==
  /\ pc[p] = "refresh_write"
  /\ transactions' = [transactions EXCEPT ![code[p]] = Update(@, RefreshPatch(cred[p]))]
  /\ Answer(p, "REFRESHED")
  /\ UNCHANGED <<now, promo_codes, creds, code, claimLocals, otherVars>>

\* /account/get-otp: the read of the cred node, its secret and generateTotp
OtpCred(p) ==
  /\ pc[p] = "get-otp_cred"
  /\ LET credKey == trx[p].assign_to IN
       IF credKey \notin DOMAIN creds
       THEN Answer(p, "CRED_NOT_FOUND") /\ UNCHANGED cred
       ELSE IF OrEmpty(creds[credKey].secret) = ""
       THEN Answer(p, "NO_SECRET") /\ UNCHANGED cred
       ELSE /\ cred' = [cred EXCEPT ![p] = creds[credKey]]
            /\ pc' = [pc EXCEPT ![p] = "get-otp_write"]
            /\ UNCHANGED outcome
  /\ UNCHANGED <<now, storeVars, code, claimLocals, poolOrder, code_windows,
                 op, answered, trx, nowTs, attempts, codeVal, otp, wakeAt>>

\* /account/get-otp: transactions/<code>.update({otp_delivered: true})
OtpWrite(p) ==
  /\ pc[p] = "get-otp_write"
  /\ transactions' = [transactions EXCEPT ![code[p]] = Update(@, [otp_delivered |-> TRUE])]
  /\ Answer(p, "OTP")
  /\ UNCHANGED <<now, promo_codes, creds, code, claimLocals, otherVars>>

\* view, refresh and OTP requests on the leases, the clock and the
\* administrative collaborator
NextOps ==
  \/ TickOps
  \/ \E k \in CredKeys : EditCred(k)
  \/ \E p \in Procs, c \in Codes : ViewLease(p, c)
  \/ \E p \in Procs, c \in Codes, o \in {"refresh", "get-otp"} : LeaseOpRead(p, c, o)
  \/ \E p \in Procs : RefreshCred(p)
  \/ \E p \in Procs : RefreshWrite(p)
  \/ \E p \in Procs : OtpCred(p)
  \/ \E p \in Procs : OtpWrite(p)

SpecOps == InitOps /\ [][NextOps]_vars


\* ------------------------------------------------- /account/get-code
\* platformKey of /account/get-code: the platform of the lease, lower-cased
platformKey(t) == toLowerCase(t.platform)

\* what the mail service answers to one lookup: a code, "success" without
\* a code, "not_found", another status, no HTTP answer at all, an answer
\* whose body cannot be read, or a body that is not JSON
Replies ==
  {"success", "success_empty", "not_found", "other", "http_error", "text_error",
   "bad_json"}

\* the instants the clock of /account/get-code visits: time 0, the ends of
\* the waits of the polling loop, and the seconds around the end of a window
\* set at time 0
FetchInstants ==
  {0, SecondMs, 3 * SecondMs}
    \cup {(WindowSeconds + k) * SecondMs : k \in (-1)..(MaxTime - 1)}

TickFetch ==
  /\ \E t \in FetchInstants : t > now /\ now' = t
  /\ UNCHANGED <<storeVars, pc, code, outcome, claimLocals, otherVars>>

\* the answer of /account/get-code; its locals end with the request (and
\* each local is dropped after the last statement that reads it)
ReturnCode(p, r) ==
  /\ Answer(p, r)
  /\ trx' = [trx EXCEPT ![p] = NoTxn]
  /\ cred' = [cred EXCEPT ![p] = NoCred]
  /\ nowTs' = [nowTs EXCEPT ![p] = 0]
  /\ attempts' = [attempts EXCEPT ![p] = 0]
  /\ codeVal' = [codeVal EXCEPT ![p] = Null]
  /\ wakeAt' = [wakeAt EXCEPT ![p] = 0]

\* the read of the cred node, its email and the platform
CodeCred(p) ==
  /\ pc[p] = "get-code_cred"
  /\ LET credKey == trx[p].assign_to IN
       IF credKey \notin DOMAIN creds THEN ReturnCode(p, "CRED_NOT_FOUND")
       ELSE IF OrEmpty(creds[credKey].email) = "" THEN ReturnCode(p, "NO_EMAIL")
       ELSE IF OrEmpty(trx[p].platform) = "" THEN ReturnCode(p, "NO_PLATFORM")
       ELSE /\ pc' = [pc EXCEPT ![p] = "code_window"]
            /\ UNCHANGED <<outcome, trx, cred, nowTs, attempts, codeVal, wakeAt>>
  /\ UNCHANGED <<now, storeVars, code, claimLocals, poolOrder, code_windows,
                 op, answered, otp>>

\* a faulty variant: the window is busy until one second before its end
WindowBusy_Late(windowUntil, ts) == windowUntil > ts + 1

\* windowUntil > nowTs
WindowBusy(windowUntil, ts) == windowUntil > ts

\* the read of runtime/code_windows/<platformKey> and the busy check
CodeWindow(p) ==
  /\ pc[p] = "code_window"
  /\ LET windowUntil == code_windows[platformKey(trx[p])]
         ts == now \div SecondMs
     IN IF WindowBusy(windowUntil, ts)
        THEN ReturnCode(p, "BUSY")
        ELSE /\ nowTs' = [nowTs EXCEPT ![p] = ts]
             /\ pc' = [pc EXCEPT ![p] = "code_set"]
             /\ UNCHANGED <<outcome, trx, cred, attempts, codeVal, wakeAt>>
  /\ UNCHANGED <<now, storeVars, code, claimLocals, poolOrder, code_windows,
                 op, answered, otp>>

\* a faulty variant: the window is held for one second more
HoldUntil_Longer(ts) == ts + WindowSeconds + 1

\* window_until: nowTs + 90
HoldUntil(ts) == ts + WindowSeconds

\* update({window_until: nowTs + 90}); attempts = 0
CodeSetWindow(p) ==
  /\ pc[p] = "code_set"
  /\ code_windows' = [code_windows EXCEPT ![platformKey(trx[p])] = HoldUntil(nowTs[p])]
  /\ attempts' = [attempts EXCEPT ![p] = 0]
  /\ codeVal' = [codeVal EXCEPT ![p] = Null]
  /\ nowTs' = [nowTs EXCEPT ![p] = 0]
  /\ pc' = [pc EXCEPT ![p] = "code_fetch"]
  /\ UNCHANGED <<now, storeVars, code, outcome, claimLocals, poolOrder,
                 op, answered, trx, cred, otp, wakeAt>>

\* a faulty variant: the loop polls again after the third "not_found" too
PollsAgain_OneMore(r, n) == r = "not_found" /\ n <= MaxPollAttempts

\* status === "not_found" and attempts < 3, attempts counting this lookup
PollsAgain(r, n) == r = "not_found" /\ n < MaxPollAttempts

\* one turn of the polling loop, taken when the wait before it is over:
\* attempts += 1, the lookup and its answer r, and the wait of
\* 1000 * attempts ms before the next turn; an answer whose body cannot be
\* read throws past the loop, to the 500
CodeFetch(p, r) ==
  /\ pc[p] = "code_fetch"
  /\ now >= wakeAt[p]
  /\ CASE r = "success" ->
            /\ attempts' = [attempts EXCEPT ![p] = 0]
            /\ wakeAt' = [wakeAt EXCEPT ![p] = 0]
            /\ codeVal' = [codeVal EXCEPT ![p] = "123456"]
            /\ pc' = [pc EXCEPT ![p] = "code_clear"]
            /\ UNCHANGED <<outcome, trx, cred, nowTs>>
       [] PollsAgain(r, attempts[p] + 1) ->
            /\ attempts' = [attempts EXCEPT ![p] = @ + 1]
            /\ wakeAt' = [wakeAt EXCEPT ![p] = now + (SecondMs * (attempts[p] + 1))]
            /\ UNCHANGED <<codeVal, pc, outcome, trx, cred, nowTs>>
       [] r = "text_error" ->
            ReturnCode(p, "ERROR500")
       [] OTHER ->
            /\ attempts' = [attempts EXCEPT ![p] = 0]
            /\ wakeAt' = [wakeAt EXCEPT ![p] = 0]
            /\ pc' = [pc EXCEPT ![p] = "code_clear"]
            /\ UNCHANGED <<codeVal, outcome, trx, cred, nowTs>>
  /\ UNCHANGED <<now, storeVars, code, claimLocals, poolOrder, code_windows,
                 op, answered, otp>>

\* update({window_until: 0}); without a code the handler answers here
CodeClear(p) ==
  /\ pc[p] = "code_clear"
  /\ code_windows' = [code_windows EXCEPT ![platformKey(trx[p])] = 0]
  /\ IF codeVal[p] = Null
     THEN ReturnCode(p, "NO_CODE")
     ELSE /\ pc' = [pc EXCEPT ![p] = "code_flag"]
          /\ UNCHANGED <<outcome, trx, cred, nowTs, attempts, codeVal, wakeAt>>
  /\ UNCHANGED <<now, storeVars, code, claimLocals, poolOrder, op, answered, otp>>

\* transactions/<code>.update({code_delivered: true}) and the answer
CodeDelivered(p) ==
  /\ pc[p] = "code_flag"
  /\ transactions' = [transactions EXCEPT ![code[p]] = Update(@, [code_delivered |-> TRUE])]
  /\ ReturnCode(p, "CODE")
  /\ UNCHANGED <<now, promo_codes, creds, code, claimLocals, poolOrder,
                 code_windows, op, answered, otp>>

\* concurrent /account/get-code requests and the clock
NextFetch ==
  \/ TickFetch
  \/ \E p \in Procs, c \in Codes : LeaseOpRead(p, c, "get-code")
  \/ \E p \in Procs : CodeCred(p)
  \/ \E p \in Procs : CodeWindow(p)
  \/ \E p \in Procs : CodeSetWindow(p)
  \/ \E p \in Procs, r \in Replies : CodeFetch(p, r)
  \/ \E p \in Procs : CodeClear(p)
  \/ \E p \in Procs : CodeDelivered(p)

\* the leases of InitOps, none of them hidden
InitFetch == InitOps /\ transactions["OOR2"].hidden = FALSE

SpecFetch == InitFetch /\ [][NextFetch]_vars


\* ------------------------------------------------- the lifecycle operations
\* the clock reaches the instant the setTimeout of request p's polling loop
\* was set for
TimerFires(p) ==
  /\ pc[p] = "code_fetch"
  /\ wakeAt[p] > now
  /\ now' = wakeAt[p]
  /\ UNCHANGED <<storeVars, pc, code, outcome, claimLocals, otherVars>>

\* POST /account/refresh, /account/get-otp and /account/get-code side by
\* side, with an administrator who edits the cred nodes
NextLife ==
  \/ \E p \in Procs : TimerFires(p)
  \/ \E k \in CredKeys : EditCred(k)
  \/ \E p \in Procs, c \in Codes, o \in {"refresh", "get-otp", "get-code"} :
       LeaseOpRead(p, c, o)
  \/ \E p \in Procs : RefreshCred(p)
  \/ \E p \in Procs : RefreshWrite(p)
  \/ \E p \in Procs : OtpCred(p)
  \/ \E p \in Procs : OtpWrite(p)
  \/ \E p \in Procs : CodeCred(p)
  \/ \E p \in Procs : CodeWindow(p)
  \/ \E p \in Procs : CodeSetWindow(p)
  \/ \E p \in Procs, r \in Replies : CodeFetch(p, r)
  \/ \E p \in Procs : CodeClear(p)
  \/ \E p \in Procs : CodeDelivered(p)

SpecLife == InitFetch /\ [][NextLife]_vars


\* ------------------------------------------------- the lease durations
\* the clock advances by half a second
TickHalf ==
  /\ now < MaxTime * SecondMs
  /\ now' = now + SecondMs \div 2
  /\ UNCHANGED <<storeVars, pc, code, outcome, claimLocals, otherVars>>

\* OOR1 is a single-use code for any one of the slots
InitDuration ==
  /\ now = 0
  /\ \E s \in DOMAIN Slots :
       promo_codes = [c \in Codes |->
          IF c = "OOR1" THEN [InitPromo(1, NoDate) EXCEPT !.slot_id = s] ELSE NoPromo]
  /\ transactions = [c \in Codes |-> NoTxn]
  /\ creds = InitCreds
  /\ pc = [p \in Procs |-> "idle"]
  /\ code = [p \in Procs |-> Null]
  /\ attempt = [p \in Procs |-> 0]
  /\ patchPayload = [p \in Procs |-> NoPatch]
  /\ claimResult = [p \in Procs |-> "NONE"]
  /\ sel = [p \in Procs |-> NoSel]
  /\ outcome = [p \in Procs |-> "NONE"]
  /\ writeFails = 0
  /\ poolOrder = CredOrder
  /\ code_windows = NoWindows
  /\ InitLeaseLocals

\* POST /promo/claim up to the stored lease, under a clock of half seconds;
\* a request that has stored its lease stays at "select"
NextDuration ==
  \/ TickHalf
  \/ \E p \in Procs, c \in Codes : ClaimRead(p, c)
  \/ \E p \in Procs : ClaimWrite(p)
  \/ \E p \in Procs : ClaimVerify(p)
  \/ \E p \in Procs : CreateLease(p)

SpecDuration == InitDuration /\ [][NextDuration]_vars


\* ------------------------------------------------- the selector alone
\* a cred node with the given ownership, lock, usage and expiry
CredNode(ownsSlots, ownsPlats, locked, usage, maxUsage, expiry) ==
  [belongs_to_slot |-> ownsSlots, belongs_to_platform |-> ownsPlats,
   locked |-> locked, usage_count |-> usage, max_usage |-> maxUsage,
   expiry_date |-> expiry, email |-> "mail", password |-> "pass"]

PoolKeys == {"cred1", "cred2", "cred3"}

\* the orders in which Object.entries(root) may yield the keys
OrdersOf(keys) ==
  {o \in [1..Cardinality(keys) -> keys] :
     \A i, j \in 1..Cardinality(keys) : i # j => o[i] # o[j]}

\* the pools of three creds, each owned by slot s1, by the wildcard or by no
\* slot, by the platform, by the wildcard or by no platform, locked or not
ScopedNodes ==
  {CredNode(os, op_, l, 0, 0, NoDate) :
     os \in {<<>>, <<"S1">>, <<"all">>},
     op_ \in {<<>>, <<"netflix">>, <<"ALL">>},
     l \in {0, 1}}

\* no request has been made
InitStill ==
  /\ pc = [p \in Procs |-> "idle"]
  /\ code = [p \in Procs |-> Null]
  /\ attempt = [p \in Procs |-> 0]
  /\ patchPayload = [p \in Procs |-> NoPatch]
  /\ claimResult = [p \in Procs |-> "NONE"]
  /\ sel = [p \in Procs |-> NoSel]
  /\ outcome = [p \in Procs |-> "NONE"]
  /\ writeFails = 0
  /\ code_windows = NoWindows
  /\ InitLeaseLocals

InitSelect ==
  /\ now = 0
  /\ promo_codes = [c \in Codes |-> NoPromo]
  /\ transactions = [c \in Codes |-> NoTxn]
  /\ creds \in [PoolKeys -> ScopedNodes]
  /\ poolOrder \in OrdersOf(PoolKeys)
  /\ InitStill

\* one call selectCredentialForSlot("s1", slot) on the pool as it is
CallSelect(p) ==
  /\ pc[p] = "idle"
  /\ \A q \in Procs : q < p => pc[q] # "idle"
  /\ sel' = [sel EXCEPT ![p] = selectCredentialForSlot(creds, "s1", getSlot("s1"), now)]
  /\ pc' = [pc EXCEPT ![p] = "done"]
  /\ UNCHANGED <<now, storeVars, code, outcome, attempt, patchPayload,
                 claimResult, writeFails, otherVars>>

NextSelect == \E p \in Procs : CallSelect(p)

SpecSelect == InitSelect /\ [][NextSelect]_vars

\* the instants of the days 1..MaxTime the selector is called at: the first
\* millisecond of the day, the second one, and the last one
DayInstants ==
  UNION {{d * DayMs, d * DayMs + 1, (d + 1) * DayMs - 1} : d \in 1..MaxTime}

\* the pools of two creds of slot s1, locked or not, at their cap or not,
\* without expiry or expiring on one of the days 0..MaxTime+1
DatedNodes ==
  {CredNode(<<"S1">>, <<>>, l, u, u, e) :
     l \in {0, 1}, u \in {0, 1}, e \in {NoDate} \cup 0..(MaxTime + 1)}

InitExpiry ==
  /\ now \in DayInstants
  /\ promo_codes = [c \in Codes |-> NoPromo]
  /\ transactions = [c \in Codes |-> NoTxn]
  /\ creds \in [CredKeys -> DatedNodes]
  /\ poolOrder \in OrdersOf(CredKeys)
  /\ InitStill

SpecExpiry == InitExpiry /\ [][NextSelect]_vars


\* ------------------------------------------------- a pool that runs dry
\* the pool of Init with the platform cred locked: cred1 serves one lease
\* and no cred serves the next
DryCreds == [InitCreds EXCEPT !["cred2"].locked = 1]

InitDry ==
  /\ now = 0
  /\ promo_codes = [c \in Codes |->
        CASE c = "OOR1" -> InitPromo(1, NoDate)
          [] c = "OOR2" -> InitPromo(MaxUses, 0)
          [] OTHER      -> NoPromo]
  /\ transactions = [c \in Codes |-> NoTxn]
  /\ creds = DryCreds
  /\ poolOrder = CredOrder
  /\ InitStill

SpecDry == InitDry /\ [][NextLease]_vars


\* ------------------------------------------------- /account/refresh alone
\* the leases of InitOps and a lease of OOR0 bound to a cred node that has
\* been removed from the store
InitRefresh ==
  /\ now = 0
  /\ promo_codes = [c \in Codes |->
        IF c = "OOR2" THEN [InitPromo(MaxUses, NoDate) EXCEPT !.used_count = 1]
        ELSE [InitPromo(1, NoDate) EXCEPT !.used_count = 1]]
  /\ transactions = [c \in Codes |->
        CASE c = "OOR0" -> [BoundLease("user0") EXCEPT !.assign_to = "cred0"]
          [] c = "OOR1" -> BoundLease("user1")
          [] OTHER      -> txnRecord("s1", Slots["s1"], "user2", 0)]
  /\ creds = InitCredsOps
  /\ poolOrder = CredOrder
  /\ InitStill

\* refresh requests on the leases, the clock and the administrative
\* collaborator
NextRefresh ==
  \/ TickOps
  \/ \E k \in CredKeys : EditCred(k)
  \/ \E p \in Procs, c \in Codes : LeaseOpRead(p, c, "refresh")
  \/ \E p \in Procs : RefreshCred(p)
  \/ \E p \in Procs : RefreshWrite(p)

SpecRefresh == InitRefresh /\ [][NextRefresh]_vars


\* ------------------------------------------------- the retry loop
\* update(patchPayload) throws, any number of times: backoff, next attempt
ClaimWriteThrows(p) ==
  /\ pc[p] = "write"
  /\ NextAttempt(p)
  /\ UNCHANGED <<now, storeVars, code, sel, writeFails, otherVars>>

\* claimPromoCodeAtomic under concurrent callers and a store whose writes
\* may fail every time
NextRetry ==
  \/ \E p \in Procs, c \in Codes : ClaimRead(p, c)
  \/ \E p \in Procs : ClaimWrite(p)
  \/ \E p \in Procs : ClaimWriteThrows(p)
  \/ \E p \in Procs : ClaimVerify(p)

\* every store operation of a request comes back, with a result or an error
SpecRetry == Init /\ [][NextRetry]_vars /\ WF_vars(NextRetry)

\* ------------------------------------------------- generateTotp
\* ---- 32-bit words of SHA-1, kept as <<high half, low half>>
\* a & b on 4 bits
BitAnd4(a, b) ==
  ((a % 2) * (b % 2)) +
  (((a \div 2) % 2) * ((b \div 2) % 2) * 2) +
  (((a \div 4) % 2) * ((b \div 4) % 2) * 4) +
  ((a \div 8) * (b \div 8) * 8)

\* a & b on 16 bits, four bits at a time
BitAnd(a, b) ==
  (BitAnd4(a \div 4096, b \div 4096) * 4096) +
  (BitAnd4((a \div 256) % 16, (b \div 256) % 16) * 256) +
  (BitAnd4((a \div 16) % 16, (b \div 16) % 16) * 16) +
  BitAnd4(a % 16, b % 16)

BitXor(a, b) == (a + b) - (2 * BitAnd(a, b))

WAnd(u, v) == <<BitAnd(u[1], v[1]), BitAnd(u[2], v[2])>>

WXor(u, v) == <<BitXor(u[1], v[1]), BitXor(u[2], v[2])>>

WNot(u) == <<65535 - u[1], 65535 - u[2]>>

\* addition modulo 2^32
WAdd(u, v) ==
  LET lo == u[2] + v[2]
      hi == u[1] + v[1] + (lo \div 65536)
  IN <<hi % 65536, lo % 65536>>

\* the sum of five words modulo 2^32
WAdd5(u, v, x, y, z) ==
  LET lo == u[2] + v[2] + x[2] + y[2] + z[2]
      hi == u[1] + v[1] + x[1] + y[1] + z[1] + (lo \div 65536)
  IN <<hi % 65536, lo % 65536>>

\* rotation to the left by n bits, 0 < n < 16
Rotl(u, n) ==
  LET up == 2 ^ n
      down == 2 ^ (16 - n)
  IN <<((u[1] * up) % 65536) + (u[2] \div down),
       ((u[2] * up) % 65536) + (u[1] \div down)>>

\* rotation to the left by 30 bits
Rotl30(u) == Rotl(<<u[2], u[1]>>, 14)

\* 67452301 EFCDAB89 98BADCFE 10325476 C3D2E1F0
H0 ==
  << <<26437, 8961>>, <<61389, 43913>>, <<39098, 56574>>,
     <<4146, 21622>>, <<50130, 57840>> >>

\* 5A827999 6ED9EBA1 8F1BBCDC CA62C1D6
Kt(t) ==
  IF t <= 20 THEN <<23170, 31129>>
  ELSE IF t <= 40 THEN <<28377, 60321>>
  ELSE IF t <= 60 THEN <<36635, 48348>>
  ELSE <<51810, 49622>>

\* Ch, Parity, Maj, Parity
Ft(t, b, c, d) ==
  IF t <= 20 THEN WAdd(WAnd(b, c), WAnd(WNot(b), d))
  ELSE IF t <= 40 THEN WXor(WXor(b, c), d)
  ELSE IF t <= 60 THEN WAdd(WAnd(b, c), WAnd(WXor(b, c), d))
  ELSE WXor(WXor(b, c), d)

\* word Len(ws) + 1 of the message schedule
NextWord(ws) ==
  Rotl(WXor(WXor(ws[Len(ws) - 2], ws[Len(ws) - 7]),
            WXor(ws[Len(ws) - 13], ws[Len(ws) - 15])), 1)

\* the message schedule extended to its first n words
RECURSIVE ExtendTo(_, _)
ExtendTo(ws, n) ==
  IF Len(ws) >= n THEN ws ELSE ExtendTo(Append(ws, NextWord(ws)), n)

\* the message schedule: the 16 words of the block extended to 80, sixteen
\* words at a time
Expand(block) == ExtendTo(ExtendTo(ExtendTo(ExtendTo(block, 32), 48), 64), 80)

\* round t on the working variables <<a, b, c, d, e>>
Round(st, t, w) ==
  <<WAdd5(Rotl(st[1], 5), Ft(t, st[2], st[3], st[4]), st[5], Kt(t), w[t]),
    st[1], Rotl30(st[2]), st[3], st[4]>>

\* ten rounds from round first on: sts holds the working variables before
\* them and after each of them so far
RECURSIVE TenRounds(_, _, _)
TenRounds(sts, first, w) ==
  IF Len(sts) > 10 THEN sts[11]
  ELSE TenRounds(Append(sts, Round(sts[Len(sts)], first + Len(sts) - 1, w)), first, w)

\* the twenty rounds of one stage
Stage(h, first, w) == TenRounds(<<TenRounds(<<h>>, first, w)>>, first + 10, w)

\* the 80 rounds, four stages
Rounds(h, w) == Stage(Stage(Stage(Stage(h, 1, w), 21, w), 41, w), 61, w)

\* one 512-bit block folded into the hash value h
AddWords(h, r) ==
  <<WAdd(h[1], r[1]), WAdd(h[2], r[2]), WAdd(h[3], r[3]),
    WAdd(h[4], r[4]), WAdd(h[5], r[5])>>

Compress(h, block) == AddWords(h, Rounds(h, Expand(block)))

Zeros(n) == [i \in 1..n |-> 0]

\* the message followed by 0x80, zeros and its length in bits on 64 bits
Pad(bytes) ==
  LET n == Len(bytes)
      bits == n * 8
  IN bytes \o <<128>> \o Zeros((55 - n) % 64) \o Zeros(4) \o
     <<(bits \div 16777216) % 256, (bits \div 65536) % 256,
       (bits \div 256) % 256, bits % 256>>

\* big-endian words of a byte sequence
WordsOf(bytes) ==
  [i \in 1..(Len(bytes) \div 4) |->
     <<(bytes[(4 * i) - 3] * 256) + bytes[(4 * i) - 2],
       (bytes[(4 * i) - 1] * 256) + bytes[4 * i]>>]

RECURSIVE Blocks(_, _)
Blocks(h, words) ==
  IF Len(words) = 0 THEN h
  ELSE Blocks(Compress(h, SubSeq(words, 1, 16)), SubSeq(words, 17, Len(words)))

BytesOfWord(u) == <<u[1] \div 256, u[1] % 256, u[2] \div 256, u[2] % 256>>

BytesOfWords(h) ==
  BytesOfWord(h[1]) \o BytesOfWord(h[2]) \o BytesOfWord(h[3]) \o
  BytesOfWord(h[4]) \o BytesOfWord(h[5])

\* the SHA-1 digest of a byte sequence: 20 bytes
Sha1(bytes) == BytesOfWords(Blocks(H0, WordsOf(Pad(bytes))))

XorBytes(bytes, mask) == [i \in 1..Len(bytes) |-> BitXor(bytes[i], mask)]

\* the key on 64 bytes
PadKey(short) == short \o Zeros(64 - Len(short))

\* the outer hash over the inner hash
HmacOfBlock(block, data) ==
  Sha1(XorBytes(block, 92) \o Sha1(XorBytes(block, 54) \o data))

\* crypto.createHmac("sha1", key).update(data).digest()
createHmac(key, data) ==
  HmacOfBlock(PadKey(IF Len(key) > 64 THEN Sha1(key) ELSE key), data)

\* ---- base32ToBuffer
\* "ABCDEFGHIJKLMNOPQRSTUVWXYZ234567"
Base32Alphabet ==
  <<"A", "B", "C", "D", "E", "F", "G", "H", "I", "J", "K", "L", "M", "N",
    "O", "P", "Q", "R", "S", "T", "U", "V", "W", "X", "Y", "Z", "2", "3",
    "4", "5", "6", "7">>

\* the letters toUpperCase changes
LowerLetters ==
  <<"a", "b", "c", "d", "e", "f", "g", "h", "i", "j", "k", "l", "m", "n",
    "o", "p", "q", "r", "s", "t", "u", "v", "w", "x", "y", "z">>

\* String.prototype.toUpperCase, one character
toUpperCase(ch) ==
  IF \E i \in 1..Len(LowerLetters) : LowerLetters[i] = ch
  THEN Base32Alphabet[CHOOSE i \in 1..Len(LowerLetters) : LowerLetters[i] = ch]
  ELSE ch

\* alphabet.indexOf(ch)
indexOf(ch) ==
  IF \E i \in 1..Len(Base32Alphabet) : Base32Alphabet[i] = ch
  THEN (CHOOSE i \in 1..Len(Base32Alphabet) : Base32Alphabet[i] = ch) - 1
  ELSE -1

\* parseInt(bits, 2)
RECURSIVE parseBits(_)
parseBits(bits) ==
  IF Len(bits) = 0 THEN 0
  ELSE (2 * parseBits(SubSeq(bits, 1, Len(bits) - 1))) + bits[Len(bits)]

\* white space and padding removed, upper-cased; five bits for every
\* character of the alphabet, other characters skipped; one byte for
\* every full eight bits
base32ToBuffer(secret) ==
  LET kept == SelectSeq(secret, LAMBDA ch : ch \notin {" ", "="})
      clean == [i \in 1..Len(kept) |-> toUpperCase(kept[i])]
      vals == SelectSeq([i \in 1..Len(clean) |-> indexOf(clean[i])],
                        LAMBDA val : val # -1)
      bits == [j \in 1..(5 * Len(vals)) |->
                 (vals[((j - 1) \div 5) + 1] \div (2 ^ (4 - ((j - 1) % 5)))) % 2]
  IN [i \in 1..(Len(bits) \div 8) |-> parseBits(SubSeq(bits, (8 * i) - 7, 8 * i))]

\* buf.writeBigUInt64BE(BigInt(time)), for a counter below 2^32
writeBigUInt64BE(time) ==
  <<0, 0, 0, 0, (time \div 16777216) % 256, (time \div 65536) % 256,
    (time \div 256) % 256, time % 256>>

\* codeInt.toString()
RECURSIVE toString(_)
toString(n) ==
  IF n < 10 THEN <<DigitChars[n + 1]>>
  ELSE Append(toString(n \div 10), DigitChars[(n % 10) + 1])

\* String.prototype.padStart with a one-character filler
RECURSIVE padStart(_, _, _)
padStart(chars, width, fill) ==
  IF Len(chars) >= width THEN chars ELSE padStart(<<fill>> \o chars, width, fill)

\* ---- the inputs of the runs
\* "12345678901234567890", the secret of the test vectors of RFC 4226 and
\* RFC 6238, in base 32
RfcSecret ==
  <<"G", "E", "Z", "D", "G", "N", "B", "V", "G", "Y", "3", "T", "Q", "O",
    "J", "Q", "G", "E", "Z", "D", "G", "N", "B", "V", "G", "Y", "3", "T",
    "Q", "O", "J", "Q">>

\* the same secret as authenticator applications show it
RfcSecretSpaced ==
  <<"g", "e", "z", "d", " ", "g", "n", "b", "v", " ", "g", "y", "3", "t",
    " ", "q", "o", "j", "q", " ", "g", "e", "z", "d", " ", "g", "n", "b",
    "v", " ", "g", "y", "3", "t", " ", "q", "o", "j", "q">>

\* "Hello!" in base 32, with its padding
PaddedSecret ==
  <<"J", "B", "S", "W", "Y", "3", "D", "P", "E", "E", "=", "=", "=", "=",
    "=", "=">>

TotpSecrets == {RfcSecret, RfcSecretSpaced, PaddedSecret}

TotpDigits == {6, 8, 9}

\* the window of generateTotp(secret, 30, 6), in ms
TotpWindowMs == TotpStep * SecondMs

\* the instants the clock visits: the first ms, the last second and the
\* last ms of each window
TotpInstants ==
  UNION {{c * TotpWindowMs, (c * TotpWindowMs) + ((TotpStep - 1) * SecondMs),
          ((c + 1) * TotpWindowMs) - 1} : c \in 0..MaxTime}

\* the digests of the keys and counters of these inputs, evaluated once:
\* <<key, counter, digest>>
Digests ==
  {<<key, time, createHmac(key, writeBigUInt64BE(time))>> :
     key \in {base32ToBuffer(s) : s \in TotpSecrets},
     time \in {(t \div SecondMs) \div TotpStep : t \in TotpInstants}}

\* crypto.createHmac("sha1", key).update(buf).digest() with buf the counter
hmacOf(key, time) ==
  IF \E d \in Digests : d[1] = key /\ d[2] = time
  THEN (CHOOSE d \in Digests : d[1] = key /\ d[2] = time)[3]
  ELSE createHmac(key, writeBigUInt64BE(time))

\* hmac[hmac.length - 1] & 0xf
dynamicOffset_HighBits(hmac) == hmac[Len(hmac)] \div 16

dynamicOffset(hmac) == hmac[Len(hmac)] % 16

\* ((hmac[offset] & 0x7f) << 24) | .. | (hmac[offset + 3] & 0xff)
truncate(hmac, offset) ==
  ((hmac[offset + 1] % 128) * 16777216) + (hmac[offset + 2] * 65536) +
  (hmac[offset + 3] * 256) + hmac[offset + 4]

\* the 31 bits at the offset the last byte gives
codeIntOf(hmac) == truncate(hmac, dynamicOffset(hmac))

\* generateTotp(secret, step, digits) when Date.now() is nowMs
generateTotp(secret, step, digits, nowMs) ==
  LET key == base32ToBuffer(secret)
      time == (nowMs \div SecondMs) \div step
      codeInt == codeIntOf(hmacOf(key, time))
      codeStr == padStart(toString(codeInt % (10 ^ digits)), digits, "0")
      nowSec == nowMs \div SecondMs
  IN [code |-> codeStr, ttl |-> step - (nowSec % step)]

\* the cred nodes, cred1 with an OTP secret
InitCredsTotp(secret) ==
  [k \in CredKeys |-> InitCreds[k] @@ [secret |-> IF k = "cred1" THEN secret ELSE <<>>]]

InitTotp ==
  /\ now = 0
  /\ promo_codes = [c \in Codes |-> NoPromo]
  /\ transactions = [c \in Codes |-> NoTxn]
  /\ \E s \in TotpSecrets : creds = InitCredsTotp(s)
  /\ poolOrder = CredOrder
  /\ InitStill

\* the clock moves on to a later instant
TickTotp ==
  /\ \E t \in TotpInstants : t > now /\ now' = t
  /\ UNCHANGED <<storeVars, pc, code, outcome, claimLocals, otherVars>>

\* one call generateTotp(secret, 30, digits) with the secret of a cred node
CallTotp(p, k, digits) ==
  /\ pc[p] = "idle"
  /\ \A q \in Procs : q < p => pc[q] # "idle"
  /\ creds[k].secret # <<>>
  /\ otp' = [otp EXCEPT ![p] =
       [secret |-> creds[k].secret, step |-> TotpStep, digits |-> digits, at |-> now]
         @@ generateTotp(creds[k].secret, TotpStep, digits, now)]
  /\ pc' = [pc EXCEPT ![p] = "done"]
  /\ UNCHANGED <<now, storeVars, code, outcome, claimLocals, poolOrder, code_windows,
                 op, answered, trx, cred, nowTs, attempts, codeVal, wakeAt>>

NextTotp ==
  \/ TickTotp
  \/ \E p \in Procs, k \in CredKeys, digits \in TotpDigits : CallTotp(p, k, digits)

SpecTotp == InitTotp /\ [][NextTotp]_vars


\* ------------------------------------------------------------ properties
Existing == {c \in Codes : promo_codes[c] # NoPromo}

\* the requests that claim code c
Callers(c) == {p \in Procs : code[p] = c}

\* the requests whose claimPromoCodeAtomic returned [true, after] for code c
Winners(c) == {p \in Callers(c) : claimResult[p] = "OK"}

\* C1: for every redemption code, in every state reachable by concurrent
\* Claim calls, the stored used-count is at most the stored maximum-uses.
C1_UsedCountWithinMax ==
  \A c \in Existing : promo_codes[c].used_count <= promo_codes[c].max_uses

\* two requests have written to one code and its used-count is at the maximum
C1_Witness ==
  \E c \in Existing :
    /\ promo_codes[c].used_count = promo_codes[c].max_uses
    /\ Cardinality({p \in Callers(c) : pc[p] \in {"verify", "lease"}}) >= 2

\* C2: on an unrevoked, unexpired code with maximum-uses 1, when N >= 2
\* callers have run Claim, exactly one returned success and the others
\* returned AlreadyUsedUp or RaceFailed.
C2_ExactlyOneSuccess ==
  \A c \in Existing :
    ( /\ promo_codes[c].max_uses = 1
      /\ ~promo_codes[c].revoked
      /\ ~(promo_codes[c].expires_at # NoDate /\ promo_codes[c].expires_at < now)
      /\ Cardinality(Callers(c)) >= 2
      /\ \A p \in Callers(c) : claimResult[p] # "NONE" )
    => /\ Cardinality(Winners(c)) = 1
       /\ \A p \in Callers(c) \ Winners(c) :
            claimResult[p] \in {"CODE_ALREADY_USED_UP", "RACE_FAILED"}

\* C3: for every code with maximum-uses M, the number of Claim calls that
\* returned success for the code never exceeds M.
C3_SuccessesWithinMax ==
  \A c \in Existing : Cardinality(Winners(c)) <= promo_codes[c].max_uses

\* the lease records that exist
Leases == {c \in Codes : transactions[c] # NoTxn}

\* C4: a lease is created once per redeemed code and never re-created: once
\* the lease record of a code is written, no Claim writes the whole record
\* again or resets its bound resource, payload snapshot, start/end time or
\* hidden flag.
C4_LeaseNeverRecreated ==
  [][\A c \in Leases :
       /\ transactions'[c].user_id = transactions[c].user_id
       /\ transactions'[c].start_time = transactions[c].start_time
       /\ transactions'[c].end_time = transactions[c].end_time
       /\ transactions'[c].approved_at = transactions[c].approved_at
       /\ transactions'[c].hidden = transactions[c].hidden
       /\ transactions[c].assign_to # Null =>
            /\ transactions'[c].assign_to = transactions[c].assign_to
            /\ transactions'[c].last_email = transactions[c].last_email
            /\ transactions'[c].last_password = transactions[c].last_password]_vars

\* C5: once a code's revoked flag is set, no Claim call returns success for
\* the code, including a call that read the record before the revocation.
C5_NoSuccessAfterRevoke ==
  [][\A p \in Procs :
       (claimResult[p] # "OK" /\ claimResult'[p] = "OK")
         => ~promo_codes[code[p]].revoked]_vars

\* request p takes the step that reads promo_codes/c
ReadsCode(p, c) ==
  /\ pc[p] \in {"idle", "read"}
  /\ pc'[p] # pc[p]
  /\ code'[p] = c

\* C6: Claim on a code whose expiry timestamp is set and in the past fails
\* Expired, whatever the other fields of the code are, and leaves the code
\* record unchanged.
C6_ExpiredAlwaysFailsExpired ==
  [][\A p \in Procs, c \in Existing :
       ( /\ ReadsCode(p, c)
         /\ promo_codes[c].expires_at # NoDate
         /\ promo_codes[c].expires_at < now )
       => /\ claimResult'[p] = "CODE_EXPIRED"
          /\ promo_codes' = promo_codes]_vars

\* C6 as amended: Claim on an unrevoked code whose expiry timestamp is set
\* and in the past fails Expired, whatever used-count and maximum-uses are,
\* and leaves the code record unchanged (a revoked code fails Revoked first).
C6_ExpiredUnrevokedFailsExpired ==
  [][\A p \in Procs, c \in Existing :
       ( /\ ReadsCode(p, c)
         /\ ~promo_codes[c].revoked
         /\ promo_codes[c].expires_at # NoDate
         /\ promo_codes[c].expires_at < now )
       => /\ claimResult'[p] = "CODE_EXPIRED"
          /\ promo_codes' = promo_codes]_vars

\* a claim of an expired code that still had uses left failed Expired, after
\* another claim of the code had succeeded
C6_Witness ==
  \E p \in Procs :
    /\ claimResult[p] = "CODE_EXPIRED"
    /\ promo_codes[code[p]].used_count > 0
    /\ promo_codes[code[p]].used_count < promo_codes[code[p]].max_uses
    /\ ~promo_codes[code[p]].revoked

\* C7: once used-count has reached maximum-uses, no Claim call changes any
\* field of the code record; only an administrative revoke does.
C7_FrozenAtMaxUses ==
  [][\A c \in Existing :
       promo_codes[c].used_count >= promo_codes[c].max_uses
         => \/ promo_codes'[c] = promo_codes[c]
            \/ promo_codes'[c] = [promo_codes[c] EXCEPT !.revoked = TRUE]]_vars

IsPrefix(s, t) == Len(s) <= Len(t) /\ SubSeq(t, 1, Len(s)) = s

\* C8: the use log is append-only: in every step the log before the step is
\* a prefix of the log after it.
C8_UseLogAppendOnly ==
  [][\A c \in Existing :
       IsPrefix(promo_codes[c].used_by, promo_codes'[c].used_by)]_vars

\* C9: a resource with maximum-usage 1 is never the bound resource of two
\* different leases.
C9_ExclusiveLease ==
  \A c1, c2 \in Leases :
    ( /\ c1 # c2
      /\ transactions[c1].assign_to # Null
      /\ transactions[c1].assign_to = transactions[c2].assign_to )
    => creds[transactions[c1].assign_to].max_usage # 1

\* request p takes the step that scans the pool
ScansPool(p) == pc[p] = "select" /\ pc'[p] # "select"

\* C9 as amended: a Claim never binds a resource whose stored usage-count had
\* reached its non-zero maximum-usage when the Claim scanned the pool; two
\* Claims that both scan before either has stored its increment can bind the
\* same resource.
C9_NoBindAfterCapStored ==
  [][\A p \in Procs :
       (ScansPool(p) /\ sel'[p].key # Null)
         => \/ creds[sel'[p].key].max_usage = 0
            \/ creds[sel'[p].key].usage_count < creds[sel'[p].key].max_usage]_vars

\* a lease is bound to the capped resource, whose usage-count is at the cap,
\* and the scan of a Claim of another code has passed it over
C9_Witness ==
  \E c \in Leases, p \in Procs :
    /\ transactions[c].assign_to = "cred1"
    /\ creds["cred1"].usage_count = creds["cred1"].max_usage
    /\ code[p] # c
    /\ pc[p] = "bind"
    /\ sel[p].key = "cred2"

\* C10: every stored lease whose bound-resource reference is non-null has a
\* non-empty payload snapshot.
C10_BoundLeaseHasPayload ==
  \A c \in Leases :
    transactions[c].assign_to # Null
      => transactions[c].last_email # Null \/ transactions[c].last_password # Null

\* C11: after a lease's end timestamp has passed the stored lease record
\* never changes again, also when the end timestamp passes between an
\* operation's expiry check and its write.
C11_ReadOnlyAfterEnd ==
  [][\A c \in Leases :
       LeaseExpired(transactions[c], now) => transactions'[c] = transactions[c]]_vars

\* request p takes its first step, for code c at endpoint o
ArrivesAt(p, c, o) == pc[p] = "idle" /\ code'[p] = c /\ op'[p] = o

\* C12: ViewLease on an existing, non-hidden lease succeeds at every time up
\* to and including the lease's end timestamp and fails Expired at every time
\* after it.
C12_ViewUntilEnd ==
  [][\A p \in Procs, c \in Leases :
       (ArrivesAt(p, c, "login") /\ transactions[c].hidden # TRUE)
         => outcome'[p] = IF now <= transactions[c].end_time THEN "OK" ELSE "EXPIRED"]_vars

\* a view has succeeded and a later view of the same lease, half a second
\* after its end timestamp, has failed Expired
C12_Witness ==
  \E p, q \in Procs :
    /\ op[p] = "login" /\ outcome[p] = "OK"
    /\ op[q] = "login" /\ outcome[q] = "EXPIRED" /\ code[q] = code[p]
    /\ now = transactions[code[p]].end_time + SecondMs \div 2
    /\ answered[q] = {p}

\* the login and password of a cred node
Payload(c) == <<c.email, c.password>>

\* C16: when RefreshLease is called twice in a row on an unexpired lease with
\* a bound resource (the first call p was answered before the second call q
\* arrived and no other request was made) and the payload q reads is the one
\* p read, q returns "unchanged" and performs no write.
C16_RefreshIdempotent ==
  [][\A p, q \in Procs :
       ( /\ p # q
         /\ pc[q] = "refresh_cred" /\ pc'[q] # "refresh_cred"
         /\ answered[q] = {p}
         /\ \A r \in Procs \ {p, q} : pc[r] = "idle"
         /\ op[p] = "refresh" /\ code[p] = code[q]
         /\ outcome[p] \in {"REFRESHED", "UNCHANGED"}
         /\ Payload(creds[trx[q].assign_to]) = Payload(cred[p]) )
       => /\ outcome'[q] = "UNCHANGED"
          /\ pc'[q] = "done"
          /\ transactions' = transactions]_vars

\* the first call stored a changed payload and the second call, made after
\* it, answered "unchanged"
C16_Witness ==
  \E p, q \in Procs :
    /\ op[p] = "refresh" /\ outcome[p] = "REFRESHED"
    /\ op[q] = "refresh" /\ outcome[q] = "UNCHANGED"
    /\ code[q] = code[p]
    /\ answered[q] = {p}
    /\ Payload(cred[q]) = Payload(cred[p])
    /\ transactions[code[q]].last_email = "mail2"

\* request p has passed the busy check and has not yet cleared the window
HoldsWindow(p) == pc[p] \in {"code_set", "code_fetch", "code_clear"}

\* C18: in no reachable state are two FetchExternalCode requests for the same
\* platform both between having passed the busy-until check and clearing the
\* window.
C18_OneFetchPerPlatform ==
  \A p, q \in Procs :
    (p # q /\ HoldsWindow(p) /\ HoldsWindow(q))
      => platformKey(trx[p]) # platformKey(trx[q])

\* the characters of a text from position i on
From(chars, i) == SubSeq(chars, i, Len(chars))

\* the text contains "day", in any letter case
ContainsDay(chars) ==
  \E i \in 1..(Len(chars) - 2) :
    \E w \in {"d", "D"} \X {"a", "A"} \X {"y", "Y"} : SubSeq(chars, i, i + 2) = w

\* the number a run of digits denotes
RECURSIVE Numeral(_)
Numeral(ds) ==
  IF ds = <<>> THEN 0
  ELSE Numeral(SubSeq(ds, 1, Len(ds) - 1)) * 10 + DigitValue(ds[Len(ds)])

\* the lengths of the integers (an optional sign, then digits) the text starts with
IntegerPrefixes(chars) ==
  {k \in 1..Len(chars) :
     LET ds == IF chars[1] \in {"-", "+"} THEN SubSeq(chars, 2, k) ELSE SubSeq(chars, 1, k)
     IN ds # <<>> /\ \A i \in 1..Len(ds) : IsDigit(ds[i])}

\* the integer the text starts with: its longest prefix that is an integer
LeadingInteger(chars) ==
  LET k == CHOOSE n \in IntegerPrefixes(chars) : \A m \in IntegerPrefixes(chars) : m <= n
  IN IF chars[1] = "-" THEN 0 - Numeral(SubSeq(chars, 2, k))
     ELSE IF chars[1] = "+" THEN Numeral(SubSeq(chars, 2, k))
     ELSE Numeral(SubSeq(chars, 1, k))

\* the duration D of a category, as C13 words it
CategoryHours(raw) ==
  IF raw.kind = "number" THEN raw.n
  ELSE IF raw.kind = "string" /\ ContainsDay(raw.text) THEN 24
  ELSE IF raw.kind = "string" /\ IntegerPrefixes(raw.text) # {} THEN LeadingInteger(raw.text)
  ELSE 6

\* request p takes the step that stores the lease
StoresLease(p) == pc[p] = "lease" /\ pc'[p] = "select"

\* C13: the lease built by a successful Claim has start = time of the claim
\* (to the second) and end = start + D hours, D being the category's duration:
\* the number itself, 24 for text containing "day", the leading integer of
\* other text that starts with one, 6 when absent or unparsable.
C13_LeaseStartAndEnd ==
  [][\A p \in Procs :
       StoresLease(p) =>
         LET lease == transactions'[code[p]]
             raw == Slots[promo_codes[code[p]].slot_id].duration_hours
         IN /\ lease.start_time = now - (now % SecondMs)
            /\ lease.end_time = lease.start_time + CategoryHours(raw) * HourMs]_vars

\* a lease of the "1 day" category, claimed half a second past a full second,
\* is stored with an end 24 hours after its start
C13_Witness ==
  \E c \in Leases :
    /\ promo_codes[c].slot_id = "s2"
    /\ transactions[c].approved_at % SecondMs # 0
    /\ transactions[c].end_time = transactions[c].start_time + 24 * HourMs

\* request p takes the step that calls the selector
Selects(p) == pc[p] = "idle" /\ pc'[p] = "done"

\* the creds of the pool that are eligible for slot s1: applicable by one of
\* the three predicates, not locked, below their cap, not expired
Eligible ==
  {k \in DOMAIN creds :
     /\ \/ appliesSlot(creds[k], "s1")
        \/ appliesPlat(creds[k], Slots["s1"])
        \/ appliesAll(creds[k])
     /\ creds[k].locked # 1
     /\ creds[k].max_usage = 0 \/ creds[k].usage_count < creds[k].max_usage
     /\ creds[k].expiry_date = NoDate \/ creds[k].expiry_date >= now \div DayMs}

ByCategory == {k \in Eligible : appliesSlot(creds[k], "s1")}
ByPlatform == {k \in Eligible : appliesPlat(creds[k], Slots["s1"])}

\* C14: whenever the eligible candidates include one that applies by
\* category, the returned resource applies by category; otherwise, when they
\* include one that applies by platform, the returned resource applies by
\* platform; a wildcard-only resource is returned only when there is no
\* eligible category-scoped or platform-scoped candidate; for every pool
\* iteration order.
C14_StrictPriority ==
  [][\A p \in Procs :
       Selects(p) =>
         /\ ByCategory # {} => sel'[p].key \in ByCategory
         /\ (ByCategory = {} /\ ByPlatform # {}) => sel'[p].key \in ByPlatform
         /\ (sel'[p].key \in Eligible \ (ByCategory \cup ByPlatform))
              => ByCategory \cup ByPlatform = {}]_vars

\* the pool yields a wildcard cred first, a platform cred second and a slot
\* cred last, all eligible, and the slot cred was returned
C14_Witness ==
  \E p \in Procs :
    /\ pc[p] = "done"
    /\ sel[p].key = poolOrder[3]
    /\ poolOrder[1] \in Eligible \ (ByCategory \cup ByPlatform)
    /\ poolOrder[2] \in ByPlatform \ ByCategory
    /\ poolOrder[3] \in ByCategory

\* the day an instant lies in
DayOf(t) == t \div DayMs

\* applicable, not locked and below its cap
OtherwiseEligible(k) ==
  /\ appliesSlot(creds[k], "s1")
  /\ creds[k].locked # 1
  /\ creds[k].max_usage = 0 \/ creds[k].usage_count < creds[k].max_usage

\* C15: at every instant of day T, SelectResource excludes an otherwise
\* eligible resource whose expiry date is T-1 and includes one whose expiry
\* date is T, the first instant 00:00:00.000 of day T included.
C15_ExpiryDayInclusive ==
  [][\A p \in Procs :
       Selects(p) =>
         \A k \in DOMAIN creds :
           /\ (OtherwiseEligible(k) /\ creds[k].expiry_date = DayOf(now) - 1)
                => sel'[p].key # k
           /\ (OtherwiseEligible(k) /\ creds[k].expiry_date = DayOf(now))
                => sel'[p].key # Null]_vars

\* C17: when the Resource Selector finds no eligible resource, Claim returns
\* success with outcome "claimed, unassigned": the code's used-count has been
\* incremented, the lease is stored with bound resource null and an empty
\* payload snapshot, and no resource's usage-count is changed.
C17_ClaimedUnassigned ==
  [][\A p \in Procs :
       (ScansPool(p) /\ sel'[p].key = Null)
         => /\ outcome'[p] = "UNASSIGNED"
            /\ claimResult[p] = "OK"
            /\ promo_codes'[code[p]].used_count > 0
            /\ transactions'[code[p]].assign_to = Null
            /\ transactions'[code[p]].last_email = Null
            /\ transactions'[code[p]].last_password = Null
            /\ creds' = creds]_vars

\* request p is inside the loop of claimPromoCodeAtomic
InLoop(p) == pc[p] \in {"read", "write", "verify"}

\* the attempt of request p ends without success: its write failed or its
\* re-read did not confirm the write
AttemptFails(p) ==
  /\ pc[p] \in {"write", "verify"}
  /\ pc'[p] \in {"read", "done"}

\* C20: Claim terminates after at most maxRetries read-write-verify attempts:
\* a store write failure and a failed post-write confirmation each consume one
\* attempt and lead to a retry from the initial read; when all attempts are
\* consumed this way Claim returns RaceFailed; a Claim never loops without
\* bound.
C20_BoundedRetries ==
  /\ [](\A p \in Procs : attempt[p] < maxRetries)
  /\ [][\A p \in Procs :
          /\ AttemptFails(p) =>
               IF attempt[p] + 1 < maxRetries
               THEN pc'[p] = "read" /\ attempt'[p] = attempt[p] + 1
               ELSE pc'[p] = "done" /\ claimResult'[p] = "RACE_FAILED"
          /\ (claimResult'[p] = "RACE_FAILED" /\ claimResult[p] # "RACE_FAILED")
               => AttemptFails(p) /\ attempt[p] = maxRetries - 1]_vars
  /\ \A p \in Procs : InLoop(p) ~> pc[p] \in {"lease", "done"}

\* a Claim has returned RaceFailed while another Claim of the same code
\* succeeded
C20_Witness ==
  \E p, q \in Procs :
    /\ claimResult[p] = "RACE_FAILED"
    /\ claimResult[q] = "OK"
    /\ code[q] = code[p]

\* the truncated 31-bit values of the test vectors of RFC 4226, appendix D,
\* for the counters 0..9 under the secret "12345678901234567890"
Rfc4226 ==
  <<1284755224, 1094287082, 137359152, 1726969429, 1640338314, 868254676,
    1918287922, 82162583, 673399871, 645520489>>

\* the decimal digits of value mod 10^digits, zero-padded to digits characters
Decimal(value, digits) ==
  [i \in 1..digits |-> DigitChars[((value \div (10 ^ (digits - i))) % 10) + 1]]

\* the calls of generateTotp made so far
Called == {p \in Procs : otp[p] # NoOtp}

\* floor(unixTime / window) of the call of p
WindowOf(p) == (otp[p].at \div SecondMs) \div otp[p].step

\* C19: GenerateTimeCode is a function of (secret, floor(unixTime / window),
\* digits): two calls with the same secret at two times inside the same
\* 30-second window return the same code, and with the RFC secret the code is
\* the RFC test-vector value of the window's counter (31-bit truncated value
\* mod 10^digits, zero-padded to digits), 94287082 at 59 s with 8 digits.
C19_TimeCode ==
  /\ \A p \in Called :
       /\ Len(otp[p].code) = otp[p].digits
       /\ otp[p].secret \in {RfcSecret, RfcSecretSpaced}
            => otp[p].code = Decimal(Rfc4226[WindowOf(p) + 1], otp[p].digits)
       /\ (otp[p].secret \in {RfcSecret, RfcSecretSpaced} /\ otp[p].digits = 8
             /\ otp[p].at = 59 * SecondMs)
            => otp[p].code = <<"9", "4", "2", "8", "7", "0", "8", "2">>
  /\ \A p, q \in Called :
       (otp[p].secret = otp[q].secret /\ otp[p].digits = otp[q].digits
          /\ WindowOf(p) = WindowOf(q))
         => otp[p].code = otp[q].code

\* two calls with the RFC secret at different instants of the window of
\* counter 1, one of them at 59 s with 8 digits, the other with 9 digits and a
\* code that starts with the padding zero
C19_Witness ==
  \E p, q \in Called :
    /\ otp[p].secret = RfcSecretSpaced
    /\ otp[p].at = 59 * SecondMs /\ otp[p].digits = 8
    /\ otp[q].at # otp[p].at /\ WindowOf(q) = WindowOf(p)
    /\ otp[q].digits = 9 /\ otp[q].code[1] = "0"

\* request p has set the window and has not yet cleared it
HasSetWindow(p) == pc[p] \in {"code_fetch", "code_clear"}

\* C21: every FetchExternalCode request that set the platform's busy-until
\* window clears it (writes busy-until = 0) before it returns, on every path:
\* a request leaves the part of the handler between the set and the clear
\* only by the step that writes 0.
C21_ClearsOnEveryPath ==
  [][\A p \in Procs :
       (HasSetWindow(p) /\ ~HasSetWindow(p)')
         => /\ pc[p] = "code_clear"
            /\ code_windows'[platformKey(trx[p])] = 0]_vars

\* request p takes the step of the busy check
ChecksWindow(p) == pc[p] = "code_window" /\ pc'[p] # "code_window"

\* the busy-until marker of the platform of request p
MarkerOf(p) == code_windows[platformKey(trx[p])]

\* C22: when FetchExternalCode finds the platform's busy-until marker greater
\* than the current time, it returns Busy without calling the external
\* collaborator (the request ends at the check) and without changing the
\* marker or the lease.
C22_BusyFailsFast ==
  [][\A p \in Procs :
       (ChecksWindow(p) /\ MarkerOf(p) > now \div SecondMs)
         => /\ outcome'[p] = "BUSY"
            /\ pc'[p] = "done"
            /\ code_windows' = code_windows
            /\ transactions' = transactions]_vars

\* a request was answered Busy one second before the end of a window that
\* another request, still polling, had set
C22_Witness ==
  \E p, q \in Procs :
    /\ outcome[p] = "BUSY"
    /\ pc[q] = "code_fetch"
    /\ now = (WindowSeconds - 1) * SecondMs
    /\ code_windows["netflix"] = WindowSeconds

\* C23: the fetch window cannot be held indefinitely. A marker is never more
\* than 90 seconds ahead of the clock, so a marker written at time t is at
\* most t + 90 s; and a request is rejected as Busy only when the marker is
\* greater than the current time: a request issued at t + 90 s or later is
\* not rejected because of it, whether or not it is ever cleared.
C23_WindowLapses ==
  /\ [](\A k \in DOMAIN code_windows :
          code_windows[k] <= (now \div SecondMs) + WindowSeconds)
  /\ [][\A p \in Procs :
          (ChecksWindow(p) /\ outcome'[p] = "BUSY")
            => MarkerOf(p) > now \div SecondMs]_vars

\* a request set the window at time 0 and is still polling, the window was
\* not cleared, and a request made 90 s later has passed the busy check
C23_Witness ==
  \E p, q \in Procs :
    /\ pc[p] = "code_fetch"
    /\ code_windows["netflix"] = WindowSeconds
    /\ pc[q] = "code_set"
    /\ nowTs[q] = WindowSeconds
    /\ platformKey(trx[q]) = "netflix"

\* C24: one FetchExternalCode request calls the external collaborator at most
\* 3 times (a lookup is made with fewer than 3 lookups behind it); it polls
\* again only after a "not_found" answer that was not the third, the next
\* lookup coming no sooner than attempt x 1s later; it leaves the loop at the
\* first "success" answer, any other status or a request error; it has a
\* code only after a "success" answer with a non-empty code, and reports the
\* code and sets the lease's code-delivered flag only with a code.
C24_BoundedPolling ==
  /\ [](\A p \in Procs : attempts[p] < MaxPollAttempts)
  /\ [][\A p \in Procs : \A r \in Replies :
          CodeFetch(p, r) =>
            /\ now >= wakeAt[p]
            /\ pc'[p] = "code_fetch"
                 <=> (r = "not_found" /\ attempts[p] + 1 < MaxPollAttempts)
            /\ pc'[p] = "code_fetch" =>
                 /\ attempts'[p] = attempts[p] + 1
                 /\ wakeAt'[p] = now + (attempts'[p] * SecondMs)
            /\ codeVal'[p] # Null <=> r = "success"]_vars
  /\ [][\A p \in Procs :
          \/ outcome'[p] = "CODE" /\ outcome[p] # "CODE"
          \/ /\ code[p] # Null
             /\ pc[p] = "code_flag"
             /\ transactions'[code[p]] # transactions[code[p]]
          => codeVal[p] # Null]_vars

\* a request is due for its third lookup, 3 s after the first: two
\* "not_found" answers, a wait of 1 s and one of 2 s; another request has
\* delivered a code
C24_Witness ==
  \E p, q \in Procs :
    /\ pc[p] = "code_fetch"
    /\ attempts[p] = MaxPollAttempts - 1
    /\ wakeAt[p] = 3 * SecondMs
    /\ now = wakeAt[p]
    /\ outcome[q] = "CODE"
    /\ transactions[code[q]].code_delivered = TRUE

\* the ownership-by-category set of cred k contains the wildcard "all"
WildcardCategory(k) == "all" \in ownsSet(creds[k].belongs_to_slot)

\* the eligible creds that satisfy appliesCategory as the claim reads it:
\* owned by the category id or by the wildcard
ByCategoryOrWildcard ==
  {k \in Eligible : appliesSlot(creds[k], "s1") \/ WildcardCategory(k)}

\* C25: a resource whose ownership-by-category set contains the literal
\* wildcard "all" satisfies appliesCategory, so SelectResource prefers it over
\* an eligible resource that matches the category only through its platform
\* tag: when an eligible cred has the wildcard among its categories, the cred
\* returned is owned by the category or has the wildcard.
C25_WildcardIsCategory ==
  [][\A p \in Procs :
       (Selects(p) /\ \E k \in Eligible : WildcardCategory(k))
         => sel'[p].key \in ByCategoryOrWildcard]_vars

\* C26: SelectResource never returns a resource that, in the pool snapshot it
\* scanned, is locked, has a non-zero maximum-usage with usage-count >=
\* maximum-usage, has an expiry date before the current day, or applies to
\* the category by none of the three predicates; and it returns no resource
\* only when the snapshot holds no resource that is applicable and passes all
\* three eligibility checks.
C26_OnlyEligibleReturned ==
  [][\A p \in Procs :
       Selects(p) =>
         /\ sel'[p].key # Null => sel'[p].key \in Eligible
         /\ sel'[p].key = Null => Eligible = {}]_vars

\* the eligible creds of the winning priority tier: those owned by the
\* slot, else those owned by the platform, else the remaining ones
WinningTier ==
  IF ByCategory # {} THEN ByCategory
  ELSE IF ByPlatform # {} THEN ByPlatform
  ELSE Eligible

\* the key of set S that the pool iteration yields first
FirstIn(S) ==
  poolOrder[CHOOSE i \in 1..Len(poolOrder) :
              /\ poolOrder[i] \in S
              /\ \A j \in 1..(i - 1) : poolOrder[j] \notin S]

\* C27: among the eligible candidates of the winning priority tier,
\* SelectResource returns the one encountered first in pool iteration order;
\* for a fixed pool snapshot, iteration order and category the result is the
\* same on every call.
C27_FirstInOrder ==
  /\ [][\A p \in Procs :
          (Selects(p) /\ WinningTier # {})
            => sel'[p].key = FirstIn(WinningTier)]_vars
  /\ [](\A p, q \in Procs :
          (pc[p] = "done" /\ pc[q] = "done") => sel[p] = sel[q])

\* request p, a refresh, takes the step that reads the cred node
ReadsCred(p) == pc[p] = "refresh_cred" /\ pc'[p] # "refresh_cred"

\* request p, a refresh, takes the step that writes the lease
WritesSnapshot(p) == pc[p] = "refresh_write" /\ pc'[p] = "done"

\* the payload snapshot of a lease record, absent fields read as ""
Snapshot(t) == <<OrEmpty(t.last_email), OrEmpty(t.last_password)>>

\* the payload of a cred node, absent fields read as ""
PayloadRead(c) == <<OrEmpty(c.email), OrEmpty(c.password)>>

\* C28: when RefreshLease finds the bound resource's payload different from
\* the lease's snapshot it overwrites the snapshot, so that right after a
\* successful refresh the lease snapshot equals the resource's payload as
\* read; RefreshLease fails Expired for a lease past its end, NoResourceBound
\* for a lease with no bound resource, and ResourceNotFound when the bound
\* resource record is absent, and in each failure case writes nothing: the
\* store changes only by the write of a successful refresh.
C28_RefreshOverwrites ==
  [][/\ \A p \in Procs :
          /\ (ReadsCred(p) /\ trx[p].assign_to \in DOMAIN creds
                /\ PayloadRead(creds[trx[p].assign_to]) # Snapshot(trx[p]))
               => pc'[p] = "refresh_write"
          /\ WritesSnapshot(p)
               => /\ outcome'[p] = "REFRESHED"
                  /\ Snapshot(transactions'[code[p]]) = PayloadRead(cred[p])
          /\ \A c \in Leases :
               ArrivesAt(p, c, "refresh") =>
                 /\ (transactions[c].end_time # NoDate /\ transactions[c].end_time < now)
                      => outcome'[p] = "EXPIRED"
                 /\ (~(transactions[c].end_time # NoDate /\ transactions[c].end_time < now)
                       /\ transactions[c].assign_to = Null)
                      => outcome'[p] = "NO_CRED"
          /\ (ReadsCred(p) /\ trx[p].assign_to \notin DOMAIN creds)
               => outcome'[p] = "CRED_NOT_FOUND"
     /\ (transactions' # transactions \/ promo_codes' # promo_codes)
          => \E p \in Procs : WritesSnapshot(p) /\ outcome'[p] = "REFRESHED"]_vars

\* a refresh has overwritten the snapshot of a lease with the payload the
\* administrator had stored since, and refreshes of other leases have failed
\* Expired, NoResourceBound and ResourceNotFound
C28_Witness ==
  /\ \E p \in Procs :
       /\ outcome[p] = "REFRESHED"
       /\ Snapshot(transactions[code[p]]) = <<"mail2", "pass2">>
  /\ \E q \in Procs : outcome[q] \in {"EXPIRED", "NO_CRED", "CRED_NOT_FOUND"}

\* C29: the stored used-count of a code never decreases, in any step of any
\* interleaving of concurrent claims
C29_UsedCountNeverDecreases ==
  [][\A c \in Existing :
       promo_codes'[c].used_count >= promo_codes[c].used_count]_vars

\* C30: a code created with used-count 0 and an empty use log has, in every
\* reachable state, as many entries in its use log as its stored used-count
C30_LogMatchesCount ==
  \A c \in Existing : Len(promo_codes[c].used_by) = promo_codes[c].used_count

\* a code claimed by two users: two entries in the log, used-count 2
C30_Witness ==
  \E c \in Existing :
    /\ promo_codes[c].used_count = 2
    /\ Len(promo_codes[c].used_by) = 2
    /\ promo_codes[c].used_by[1].user_id # promo_codes[c].used_by[2].user_id

\* C31: a resource with a non-zero maximum-usage whose usage-count starts at or
\* below it never has a stored usage-count above its maximum-usage, in any
\* interleaving of concurrent Claim handlers
C31_UsageWithinMax ==
  \A k \in CredKeys :
    creds[k].max_usage # 0 => creds[k].usage_count <= creds[k].max_usage

\* two Claim handlers have bound the capped resource and stored their
\* increments; its usage-count is at the cap
C31_Witness ==
  \E p, q \in Procs :
    /\ p # q
    /\ pc[p] = "done" /\ outcome[p] = "ASSIGNED"
    /\ pc[q] = "done" /\ outcome[q] = "ASSIGNED"
    /\ transactions[code[p]].assign_to = "cred1"
    /\ transactions[code[q]].assign_to = "cred1"
    /\ code[p] # code[q]
    /\ creds["cred1"].max_usage # 0
    /\ creds["cred1"].usage_count = creds["cred1"].max_usage

\* request p's call of claimPromoCodeAtomic returns a failure in this step
ReturnsFailure(p) ==
  /\ pc[p] # "done"
  /\ pc'[p] = "done"
  /\ claimResult'[p] \in {"CODE_NOT_FOUND", "CODE_REVOKED", "CODE_EXPIRED",
                          "CODE_ALREADY_USED_UP", "RACE_FAILED"}

\* the entries of the use log of code c that carry the user of request p
EntriesOf(p, c) ==
  {i \in 1..Len(promo_codes[c].used_by) :
     promo_codes[c].used_by[i].user_id = UserId(p)}

\* C32: a Claim call that returns a failure has left no trace in the code
\* record: when it returns, the stored use log holds no entry written by it
C32_FailureLeavesNoTrace ==
  [][\A p \in Procs :
       ReturnsFailure(p) => \A c \in Existing : EntriesOf(p, c)' = {}]_vars

\* request p takes a step
Steps(p) == pc'[p] # pc[p]

\* request p enters the part of the handler that follows a successful claim
EntersLease(p) == pc[p] # "lease" /\ pc'[p] = "lease"

\* C33: a lease record is written only after the claiming call's increment of
\* used-count was confirmed by the re-read; a Claim that fails creates or
\* alters no lease; the selector is invoked, and a usage-count incremented,
\* only after the request has stored its lease record with no bound resource
C33_LeaseAfterConfirmedClaim ==
  [][\A p \in Procs :
       /\ EntersLease(p) =>
            /\ pc[p] = "verify"
            /\ promo_codes[code[p]].used_count = patchPayload[p].used_count
            /\ claimResult'[p] = "OK"
       /\ (Steps(p) /\ transactions' # transactions) =>
            /\ claimResult[p] = "OK"
            /\ pc[p] \in {"lease", "bind"}
       /\ claimResult[p] = "OK" => claimResult'[p] = "OK"
       /\ (Steps(p) /\ claimResult'[p] # "OK") =>
            /\ transactions' = transactions
            /\ creds' = creds
       /\ StoresLease(p) =>
            /\ transactions'[code[p]].assign_to = Null
            /\ transactions'[code[p]].user_id = UserId(p)
       /\ (pc[p] # "select" /\ pc'[p] = "select") => StoresLease(p)
       /\ ScansPool(p) => transactions[code[p]] # NoTxn
       /\ (pc[p] # "bind" /\ pc'[p] = "bind") => ScansPool(p)
       /\ (pc[p] # "incr" /\ pc'[p] = "incr") => pc[p] = "bind"
       /\ (Steps(p) /\ creds' # creds) =>
            /\ pc[p] = "incr"
            /\ transactions[code[p]] # NoTxn]_vars

\* one Claim of a code failed; another Claim of that code was confirmed, stored
\* the lease, which is still its own, was bound to a resource and counted its use
C33_Witness ==
  \E p, q \in Procs :
    /\ p # q
    /\ pc[p] = "done" /\ claimResult[p] = "CODE_ALREADY_USED_UP"
    /\ code[p] = code[q]
    /\ pc[q] = "done" /\ outcome[q] = "ASSIGNED"
    /\ transactions[code[q]].user_id = UserId(q)
    /\ transactions[code[q]].assign_to = "cred1"
    /\ creds["cred1"].usage_count = 1

\* request p's code creation has answered success
Created(p) == pc[p] = "done" /\ outcome[p] = "CREATED"

\* C34: creating a code never overwrites an existing code record: of the
\* creation requests for one code at most one reports success, and a record
\* with used-count > 0 is never reset to used-count 0
C34_CreateNeverOverwrites ==
  /\ [](\A p, q \in Procs :
          (Created(p) /\ Created(q) /\ code[p] = code[q]) => p = q)
  /\ [][\A c \in Existing :
          promo_codes[c].used_count > 0 => promo_codes'[c].used_count > 0]_vars

\* request p of a lifecycle operation takes a step
LifeStep(p) ==
  \/ pc'[p] # pc[p]
  \/ attempts'[p] # attempts[p]

\* the lease fields the operation of request p may write
OwnFields(p) ==
  CASE op[p] = "refresh"  -> {"last_email", "last_password"}
    [] op[p] = "get-otp"  -> {"otp_delivered"}
    [] op[p] = "get-code" -> {"code_delivered"}
    [] OTHER              -> {}

\* record t2 is record t but for the fields F
SameBut(t, t2, F) ==
  /\ DOMAIN t \subseteq DOMAIN t2
  /\ DOMAIN t2 \subseteq DOMAIN t \cup F
  /\ \A f \in DOMAIN t \ F : t2[f] = t[f]

\* C35: the lifecycle operations change only their own lease fields:
\* RefreshLease the payload snapshot, the time-code fetch and FetchExternalCode
\* their delivery flag; none changes the bound-resource reference, the start
\* and end timestamps or the hidden flag of a lease, a code record or a
\* resource record
C35_OwnFieldsOnly ==
  [][\A p \in Procs :
       LifeStep(p) =>
         /\ promo_codes' = promo_codes
         /\ creds' = creds
         /\ \A c \in Codes :
              SameBut(transactions[c], transactions'[c],
                      IF c = code[p] THEN OwnFields(p) ELSE {})]_vars

\* the lease of OOR1 was refreshed after an edit of its resource and had an
\* external code delivered; its binding, timestamps and hidden flag are those
\* of the lease as stored
C35_Witness ==
  LET t == transactions["OOR1"] IN
    /\ t.last_email = "mail2"
    /\ "code_delivered" \in DOMAIN t
    /\ t.assign_to = "cred1"
    /\ t.start_time = BoundLease("user1").start_time
    /\ t.end_time = BoundLease("user1").end_time
    /\ t.hidden = FALSE
    /\ \E p, q \in Procs : outcome[p] = "REFRESHED" /\ outcome[q] = "CODE"

====
